---------------------------- MODULE Spec2Model ----------------------------
(***************************************************************************)
(* Guarded query gateway of tambo-lens: the SQL guardrail validator        *)
(* (query-guardrails), the pooled guarded-query executor (query-service)   *)
(* and the stores they read and write.                                     *)
(*                                                                         *)
(* A SQL text is a JavaScript string.  It is kept here in its unique       *)
(* decomposition into lexemes: maximal runs of word characters             *)
(* [A-Za-z0-9_] (the runs the regular expressions' \b delimits), maximal   *)
(* runs of white space (kept as their length, so that texts longer than    *)
(* MAX_QUERY_LENGTH can be written down) and single other characters.      *)
(***************************************************************************)
EXTENDS Integers, Sequences, FiniteSets, TLC

\* ------------------------------------------------------------------------
\* Characters and strings
\* ------------------------------------------------------------------------

LowerChars ==
    <<"a","b","c","d","e","f","g","h","i","j","k","l","m",
      "n","o","p","q","r","s","t","u","v","w","x","y","z">>

UpperChars ==
    <<"A","B","C","D","E","F","G","H","I","J","K","L","M",
      "N","O","P","Q","R","S","T","U","V","W","X","Y","Z">>

DigitChars == <<"0","1","2","3","4","5","6","7","8","9">>

Range(s) == {s[i] : i \in DOMAIN s}

Letters == Range(LowerChars) \cup Range(UpperChars)

\* \w of the regular expressions
WordChars == Letters \cup Range(DigitChars) \cup {"_"}

\* [a-zA-Z_], the first character of an identifier in tableRefRegex
IdentStartChars == Letters \cup {"_"}

UpperOfChar ==
    [c \in WordChars |->
        IF c \in Range(LowerChars)
        THEN UpperChars[CHOOSE i \in 1..26 : LowerChars[i] = c]
        ELSE c]

LowerOfChar ==
    [c \in WordChars |->
        IF c \in Range(UpperChars)
        THEN LowerChars[CHOOSE i \in 1..26 : UpperChars[i] = c]
        ELSE c]

\* String.prototype.toUpperCase / toLowerCase on a run of word characters
toUpperCase(s) == [i \in 1..Len(s) |-> UpperOfChar[s[i]]]
toLowerCase(s) == [i \in 1..Len(s) |-> LowerOfChar[s[i]]]

\* String.prototype.startsWith / includes on character sequences
startsWith(s, prefix) ==
    /\ Len(s) >= Len(prefix)
    /\ SubSeq(s, 1, Len(prefix)) = prefix

includes(s, sub) ==
    \E j \in 1..(Len(s) - Len(sub) + 1) : SubSeq(s, j, j + Len(sub) - 1) = sub

\* Number-to-string conversion of a template literal (non-negative integers)
RECURSIVE NumberToString(_)
NumberToString(n) ==
    IF n < 10 THEN <<DigitChars[n + 1]>>
    ELSE Append(NumberToString(n \div 10), DigitChars[(n % 10) + 1])

\* ------------------------------------------------------------------------
\* SQL texts as lexeme sequences
\* ------------------------------------------------------------------------

Word(s)  == [k |-> "w", s |-> s, n |-> Len(s)]
Sym(c)   == [k |-> "p", s |-> <<c>>, n |-> 1]
Space(n) == [k |-> "s", s |-> <<>>, n |-> n]

IsWord(x)   == x.k = "w"
IsSpace(x)  == x.k = "s"
IsSym(x, c) == x.k = "p" /\ x.s = <<c>>

\* String concatenation: the runs that meet at the seam fuse
Concat(a, b) ==
    IF a = <<>> THEN b
    ELSE IF b = <<>> THEN a
    ELSE LET x == a[Len(a)]
             y == b[1]
         IN  IF IsWord(x) /\ IsWord(y)
             THEN SubSeq(a, 1, Len(a) - 1) \o <<Word(x.s \o y.s)>> \o Tail(b)
             ELSE IF IsSpace(x) /\ IsSpace(y)
             THEN SubSeq(a, 1, Len(a) - 1) \o <<Space(x.n + y.n)>> \o Tail(b)
             ELSE a \o b

\* sql.length
RECURSIVE StringLength(_)
StringLength(t) ==
    IF t = <<>> THEN 0
    ELSE IF Len(t) = 1 THEN t[1].n
    ELSE LET half == Len(t) \div 2
         IN  StringLength(SubSeq(t, 1, half)) + StringLength(SubSeq(t, half + 1, Len(t)))

\* String.prototype.trim
trim(t) ==
    LET a == IF t # <<>> /\ IsSpace(t[1]) THEN Tail(t) ELSE t
    IN  IF a # <<>> /\ IsSpace(a[Len(a)]) THEN SubSeq(a, 1, Len(a) - 1) ELSE a

\* \b left out of the pattern: the word is found inside longer words too
RegexWordTest_NoBoundary(word, sql) ==
    \E i \in 1..Len(sql) :
        IsWord(sql[i]) /\ includes(toUpperCase(sql[i].s), toUpperCase(word))

\* new RegExp(`\\b${word}\\b`, "i").test(sql), for a word of word characters
RegexWordTest(word, sql) ==
    \E i \in 1..Len(sql) :
        IsWord(sql[i]) /\ toUpperCase(sql[i].s) = toUpperCase(word)

\* ------------------------------------------------------------------------
\* query-guardrails: validateQuery and enforceLimit
\* ------------------------------------------------------------------------

\* Reserved SQL keywords that are never allowed in AI-generated queries
FORBIDDEN_KEYWORDS ==
    <<
       <<"I","N","S","E","R","T">>,
       <<"U","P","D","A","T","E">>,
       <<"D","E","L","E","T","E">>,
       <<"D","R","O","P">>,
       <<"A","L","T","E","R">>,
       <<"C","R","E","A","T","E">>,
       <<"T","R","U","N","C","A","T","E">>,
       <<"G","R","A","N","T">>,
       <<"R","E","V","O","K","E">>,
       <<"E","X","E","C","U","T","E">>,
       <<"E","X","E","C">>,
       <<"C","A","L","L">>,
       <<"M","E","R","G","E">>,
       <<"R","E","P","L","A","C","E">>,
       <<"C","O","P","Y">>,
       <<"V","A","C","U","U","M">>,
       <<"R","E","I","N","D","E","X">>,
       <<"C","L","U","S","T","E","R">>,
       <<"C","O","M","M","E","N","T">>,
       <<"L","O","C","K">>,
       <<"R","E","S","E","T">>,
       <<"B","E","G","I","N">>,
       <<"C","O","M","M","I","T">>,
       <<"R","O","L","L","B","A","C","K">>,
       <<"S","A","V","E","P","O","I","N","T">>,
       <<"P","R","E","P","A","R","E">>,
       <<"D","E","A","L","L","O","C","A","T","E">>,
       <<"L","I","S","T","E","N">>,
       <<"N","O","T","I","F","Y">>,
       <<"L","O","A","D">>,
       <<"S","E","C","U","R","I","T","Y">>
    >>

MAX_QUERY_LENGTH == 5000
DEFAULT_ROW_LIMIT == 1000

\* String literals of the validator
STR_SELECT  == <<"S","E","L","E","C","T">>
STR_LIMIT   == <<"L","I","M","I","T">>
STR_FROM    == <<"F","R","O","M">>
STR_JOIN    == <<"J","O","I","N">>
STR_LATERAL == <<"L","A","T","E","R","A","L">>

\* Names that can follow FROM without being tables
NON_TABLE_NAMES ==
    { <<"s","e","l","e","c","t">>,
      <<"l","a","t","e","r","a","l">>,
      <<"u","n","n","e","s","t">>,
      <<"g","e","n","e","r","a","t","e","_","s","e","r","i","e","s">> }

\* An entry of QueryValidation.errors / warnings: the fixed text and the
\* values interpolated into it
Msg(text, a, b) == [text |-> text, a |-> a, b |-> b]

ErrLength         == Msg("Query exceeds maximum length of characters", <<>>, <<>>)
ErrSelectOnly     == Msg("Only SELECT queries are permitted", <<>>, <<>>)
ErrForbidden(kw)  == Msg("Forbidden keyword detected", kw, <<>>)
ErrMultiple       == Msg("Multiple statements are not allowed", <<>>, <<>>)
ErrDenied(table)  == Msg("Access denied to table", table, <<>>)
ErrMasked(col, table) == Msg("Access to masked column in table is not allowed", col, table)
WarnNoLimit(maxRows) == Msg("No LIMIT clause detected. A default LIMIT will be added.", NumberToString(maxRows), <<>>)
WarnComplex       == Msg("Complex subquery nesting detected. Consider simplifying.", <<>>, <<>>)

\* the SELECT-only check lets every text through
StartsWithSelect_Always(sql) == TRUE

\* sql.trim().toUpperCase().startsWith("SELECT")
StartsWithSelect(sql) ==
    LET t == trim(sql)
    IN  /\ t # <<>>
        /\ IsWord(t[1])
        /\ startsWith(toUpperCase(t[1].s), STR_SELECT)

\* sql.trim().toUpperCase().includes("LIMIT")
IncludesLimit(sql) ==
    \E i \in 1..Len(sql) :
        IsWord(sql[i]) /\ includes(toUpperCase(sql[i].s), STR_LIMIT)

\* 3. one error per forbidden keyword found, in deny-list order
ForbiddenKeywordErrors(sql) ==
    LET hits == SelectSeq(FORBIDDEN_KEYWORDS, LAMBDA kw : RegexWordTest(kw, sql))
    IN  [i \in 1..Len(hits) |-> ErrForbidden(hits[i])]

\* sql.replace(/q[^q]*q/g, ""): leftmost quote, the next one after it,
\* everything between them removed, then on from there
RECURSIVE StripQuoted(_, _)
StripQuoted(t, q) ==
    LET quotes == {i \in 1..Len(t) : IsSym(t[i], q)}
    IN  IF Cardinality(quotes) < 2 THEN t
        ELSE LET a == CHOOSE i \in quotes : \A j \in quotes : i <= j
                 rest == quotes \ {a}
                 b == CHOOSE i \in rest : \A j \in rest : i <= j
             IN  SubSeq(t, 1, a - 1) \o StripQuoted(SubSeq(t, b + 1, Len(t)), q)

\* String.prototype.split(";")
RECURSIVE SplitOn(_, _)
SplitOn(t, c) ==
    LET seps == {i \in 1..Len(t) : IsSym(t[i], c)}
    IN  IF seps = {} THEN <<t>>
        ELSE LET a == CHOOSE i \in seps : \A j \in seps : i <= j
             IN  <<SubSeq(t, 1, a - 1)>> \o SplitOn(SubSeq(t, a + 1, Len(t)), c)

\* 4. multiple statements
semiColonStripped(sql) == StripQuoted(StripQuoted(sql, "'"), "\"")

MultipleStatementErrors(sql) ==
    LET stripped == semiColonStripped(sql)
    IN  IF \E i \in 1..Len(stripped) : IsSym(stripped[i], ";")
        THEN LET statementsCount ==
                     Len(SelectSeq(SplitOn(stripped, ";"), LAMBDA s : trim(s) # <<>>))
             IN  IF statementsCount > 1 THEN <<ErrMultiple>> ELSE <<>>
        ELSE <<>>

\* [a-zA-Z_][a-zA-Z0-9_]* at lexeme i
IsIdentifierAt(sql, i) ==
    i <= Len(sql) /\ IsWord(sql[i]) /\ sql[i].s[1] \in IdentStartChars

\* tableRefRegex matches at lexeme i: \b(?:FROM|JOIN)\s+(?!\(|LATERAL\b)ident
TableRefMatchAt(sql, i) ==
    /\ IsWord(sql[i])
    /\ toUpperCase(sql[i].s) \in {STR_FROM, STR_JOIN}
    /\ i + 2 <= Len(sql)
    /\ IsSpace(sql[i + 1])
    /\ IsIdentifierAt(sql, i + 2)
    /\ toUpperCase(sql[i + 2].s) # STR_LATERAL

\* the optional (?:\.ident) group took part in the match at lexeme i
TableRefQualifiedAt(sql, i) ==
    /\ i + 4 <= Len(sql)
    /\ IsSym(sql[i + 3], ".")
    /\ IsIdentifierAt(sql, i + 4)

\* (tableMatch[2] ?? tableMatch[1]).replace(/"/g, "").toLowerCase()
TableNameOfMatch(sql, i) ==
    LET raw == IF TableRefQualifiedAt(sql, i) THEN sql[i + 4].s ELSE sql[i + 2].s
    IN  toLowerCase(SelectSeq(raw, LAMBDA c : c # "\""))

\* the while loop over tableRefRegex.exec(sql), from lexeme i on
RECURSIVE referencedTablesFrom(_, _, _)
referencedTablesFrom(sql, i, acc) ==
    LET matches == {j \in i..Len(sql) : TableRefMatchAt(sql, j)}
    IN  IF matches = {} THEN acc
        ELSE LET at == CHOOSE j \in matches : \A k \in matches : j <= k
                 tableName == TableNameOfMatch(sql, at)
                 next == IF TableRefQualifiedAt(sql, at) THEN at + 5 ELSE at + 3
             IN  IF tableName \in NON_TABLE_NAMES \/ tableName \in Range(acc)
                 THEN referencedTablesFrom(sql, next, acc)
                 ELSE referencedTablesFrom(sql, next, Append(acc, tableName))

referencedTables(sql) == referencedTablesFrom(sql, 1, <<>>)

\* 5. table access authorization
TableAccessErrors(sql, allowedTables) ==
    LET allowedTablesLower == {toLowerCase(allowedTables[i]) : i \in DOMAIN allowedTables}
        denied == SelectSeq(referencedTables(sql), LAMBDA t : t \notin allowedTablesLower)
    IN  [i \in 1..Len(denied) |-> ErrDenied(denied[i])]

\* a masked column is looked for only when its own table is referenced
RECURSIVE MaskedColumnErrors_ReferencedOnly(_, _)
MaskedColumnErrors_ReferencedOnly(sql, maskedColumns) ==
    IF maskedColumns = <<>> THEN <<>>
    ELSE LET entry == maskedColumns[1]
             hits == IF toLowerCase(entry.table) \in Range(referencedTables(sql))
                     THEN SelectSeq(entry.columns, LAMBDA col : RegexWordTest(col, sql))
                     ELSE <<>>
         IN  [i \in 1..Len(hits) |-> ErrMasked(hits[i], entry.table)]
             \o MaskedColumnErrors_ReferencedOnly(sql, Tail(maskedColumns))

\* 6. masked column exposure; maskedColumns is the sequence of
\* Object.entries: <<[table, columns]>>
RECURSIVE MaskedColumnErrors(_, _)
MaskedColumnErrors(sql, maskedColumns) ==
    IF maskedColumns = <<>> THEN <<>>
    ELSE LET entry == maskedColumns[1]
             hits == SelectSeq(entry.columns, LAMBDA col : RegexWordTest(col, sql))
         IN  [i \in 1..Len(hits) |-> ErrMasked(hits[i], entry.table)]
             \o MaskedColumnErrors(sql, Tail(maskedColumns))

\* (sql.match(/\(/g) || []).length
openParens(sql) == Cardinality({i \in 1..Len(sql) : IsSym(sql[i], "(")})

ValidationWarnings(sql, maxRows) ==
    (IF ~IncludesLimit(sql) THEN <<WarnNoLimit(maxRows)>> ELSE <<>>)
    \o (IF openParens(sql) > 5 THEN <<WarnComplex>> ELSE <<>>)

\* the SELECT-only check pushes its error and falls through to the other checks
validateQuery_NoEarlyReturn(sql, allowedTables, maskedColumns, maxRows) ==
    IF StringLength(sql) > MAX_QUERY_LENGTH
    THEN [valid |-> FALSE, errors |-> <<ErrLength>>, warnings |-> <<>>]
    ELSE LET errors == (IF ~StartsWithSelect(sql) THEN <<ErrSelectOnly>> ELSE <<>>)
                       \o ForbiddenKeywordErrors(sql)
                       \o MultipleStatementErrors(sql)
                       \o TableAccessErrors(sql, allowedTables)
                       \o MaskedColumnErrors(sql, maskedColumns)
         IN  [valid    |-> errors = <<>>,
              errors   |-> errors,
              warnings |-> ValidationWarnings(sql, maxRows)]

validateQuery(sql, allowedTables, maskedColumns, maxRows) ==
    IF StringLength(sql) > MAX_QUERY_LENGTH
    THEN [valid |-> FALSE, errors |-> <<ErrLength>>, warnings |-> <<>>]
    ELSE IF ~StartsWithSelect(sql)
    THEN [valid |-> FALSE, errors |-> <<ErrSelectOnly>>, warnings |-> <<>>]
    ELSE LET errors == ForbiddenKeywordErrors(sql)
                       \o MultipleStatementErrors(sql)
                       \o TableAccessErrors(sql, allowedTables)
                       \o MaskedColumnErrors(sql, maskedColumns)
         IN  [valid    |-> errors = <<>>,
              errors   |-> errors,
              warnings |-> ValidationWarnings(sql, maxRows)]

\* sql.replace(/;\s*$/, "")
StripTrailingSemicolon(sql) ==
    LET n == Len(sql)
    IN  IF n >= 1 /\ IsSym(sql[n], ";") THEN SubSeq(sql, 1, n - 1)
        ELSE IF n >= 2 /\ IsSpace(sql[n]) /\ IsSym(sql[n - 1], ";")
        THEN SubSeq(sql, 1, n - 2)
        ELSE sql

\* the clause is appended whether or not the text holds LIMIT
enforceLimit_AlwaysAppend(sql, maxRows) ==
    Concat(StripTrailingSemicolon(sql),
           <<Space(1), Word(STR_LIMIT), Space(1), Word(NumberToString(maxRows))>>)

enforceLimit(sql, maxRows) ==
    IF ~IncludesLimit(sql)
    THEN Concat(StripTrailingSemicolon(sql),
                <<Space(1), Word(STR_LIMIT), Space(1), Word(NumberToString(maxRows))>>)
    ELSE sql


\* ------------------------------------------------------------------------
\* State
\* ------------------------------------------------------------------------

VARIABLES
    sql,            \* validateQuery: the text under validation
    allowedTables,  \* validateQuery: string[] of authorized tables
    maskedColumns,  \* validateQuery: entries of Record<table, column[]>
    validation,     \* validateQuery: the QueryValidation returned
    phase,          \* "input" before the call, "validated" after it
    maxRows,        \* enforceLimit: the row limit passed
    limited,        \* enforceLimit: the texts returned, one per application
    tablePermissions, \* table_permissions rows, per data source
    poolCache,      \* query-service: Map<dataSourceId, {pool, lastUsed}>
    poolCount,      \* pools created so far (a pool is known by its number)
    endedPools,     \* pools on which pool.end() was called
    now,            \* Date.now()
    sweepDue,       \* the cleanup timer has expired and its callback is pending
    auditLog,       \* query_audit_log rows, in insertion order
    call,           \* executeGuardedQuery: the activation of each caller
    callsBegun,     \* calls started so far
    scans,          \* anomaly_scans rows, in insertion order; the id is the position
    alerts,         \* anomaly_alerts rows, in insertion order
    llmEnabled,     \* anomaly-service: LLM_ENABLED, read from the environment at load
    run             \* runAnomalyScan: the activation of each caller

guardVars == <<sql, allowedTables, maskedColumns, validation, phase, maxRows, limited>>

execVars == <<tablePermissions, poolCache, poolCount, endedPools, now, sweepDue,
              auditLog, call, callsBegun>>

scanVars == <<scans, alerts, llmEnabled, run>>

vars == <<guardVars, execVars, scanVars>>

\* ------------------------------------------------------------------------
\* Inputs of the validator: texts built from fragments
\* ------------------------------------------------------------------------

\* longest run of body fragments in a text
MaxFragments == 3

T_users  == <<"u","s","e","r","s">>
T_Users  == <<"U","s","e","r","s">>
T_orders == <<"o","r","d","e","r","s">>
T_secret == <<"s","e","c","r","e","t">>
C_email  == <<"e","m","a","i","l">>
C_id     == <<"i","d">>

\* how a text can begin
HeadFragments ==
    { <<Word(STR_SELECT), Space(1)>>,                                  \* "SELECT "
      <<Space(2), Word(<<"s","e","l","e","c","t">>), Space(1)>>,          \* "  select "
      <<Word(<<"D","R","O","P">>), Space(1)>>,                      \* "DROP "
      <<Space(MAX_QUERY_LENGTH), Word(STR_SELECT), Space(1)>>,         \* 5000 blanks, "SELECT "
      <<Word(STR_SELECT), Space(1), Sym("\""), Word(<<"i","t">>), Sym("'"),
        Word(<<"s">>), Sym("\""), Space(1)>> }                         \* SELECT "it's" 

\* what can follow
BodyFragments ==
    { <<Sym("*"), Space(1)>>,                                          \* "* "
      <<Word(<<"E","m","a","i","l">>), Space(1)>>,                     \* "Email "
      <<Word(STR_FROM), Space(1), Word(T_users), Space(1)>>,           \* "FROM users "
      <<Word(<<"j","o","i","n">>), Space(1), Word(<<"p","u","b","l","i","c">>),
        Sym("."), Word(<<"O","r","d","e","r","s">>), Space(1)>>,          \* "join public.Orders "
      <<Sym(","), Space(1), Word(T_secret), Space(1)>>,                \* ", secret "
      <<Sym(";"), Space(1)>>,                                          \* "; "
      <<Sym("\""), Word(<<"i","t">>), Sym("'"), Word(<<"s">>),
        Sym("\""), Space(1)>>,                                         \* "it's" (quoted identifier)
      <<Sym("'"), Word(<<"a">>), Sym(";"), Word(<<"b">>),
        Sym("'"), Space(1)>>,                                          \* 'a;b' (string literal)
      <<Word(<<"d","r","o","p">>), Space(1)>>,                      \* "drop "
      <<Word(<<"R","e","s","e","t">>), Space(1)>>,                     \* "Reset "
      <<Word(<<"x">>)>> }                                  \* "x", fuses with what follows

RECURSIVE FragmentRuns(_)
FragmentRuns(n) ==
    IF n = 0 THEN {<<>>}
    ELSE LET shorter == FragmentRuns(n - 1)
         IN  shorter \cup {Concat(r, f) : r \in shorter, f \in BodyFragments}

SqlTexts == {Concat(h, r) : h \in HeadFragments, r \in FragmentRuns(MaxFragments)}

AllowedTableLists == { <<T_Users>>, <<T_Users, T_orders>> }

MaskedColumnMaps == { <<>>, <<[table |-> T_users, columns |-> <<C_email>>]>> }

NoValidation == [valid |-> FALSE, errors |-> <<>>, warnings |-> <<>>]

\* ------------------------------------------------------------------------
\* query-service: the stores and collaborators of the executor
\* ------------------------------------------------------------------------

\* calls started in one behaviour
MaxCalls == 2

\* timer periods the clock runs for
MaxTicks == 6

POOL_TTL_MS == 300000
SWEEP_INTERVAL_MS == 60000

\* connectionTimeoutMillis of the pools createExternalPool makes
CONNECTION_TIMEOUT_MS == 10000

\* concurrent callers of executeGuardedQuery
CallerIds == {"c1", "c2"}

\* ids a caller may pass; "ds0" has no row in data_sources
DataSourceIds == {"ds0", "ds1", "ds2", "ds3"}

\* rows of data_sources
DataSourceRows == {"ds1", "ds2", "ds3"}

\* decrypt(dataSource.encryptedPassword) returns; the secret stored for
\* "ds3" does not authenticate under the key and decipher.final throws
DecryptSucceeds(ds) == ds # "ds3"

\* table_permissions as the permission editor may have left them
PermissionStores ==
    { [ds \in DataSourceRows |->
          IF ds = "ds2" THEN [allowed |-> <<>>, masked |-> <<>>]
          ELSE [allowed |-> a, masked |-> m]] :
        a \in AllowedTableLists, m \in MaskedColumnMaps \ {<<>>} }

\* the external database: its tables and their columns
RemoteTableColumns(table) ==
    IF table = T_users THEN {C_id, C_email}
    ELSE IF table = T_orders THEN {C_id, <<"t","o","t","a","l">>}
    ELSE {}

\* queryResult.fields of a statement the external database ran: every
\* column of the tables read when the select list is *, else the columns
\* of those tables that the statement names
RemoteFields(text) ==
    LET tables == {tb \in {T_users, T_orders} :
                      \E i \in DOMAIN text :
                          IsWord(text[i]) /\ toLowerCase(text[i].s) = tb}
        star == \E i \in DOMAIN text : IsSym(text[i], "*")
    IN  UNION {{<<tb, col>> : col \in {x \in RemoteTableColumns(tb) :
                                          star \/ RegexWordTest(x, text)}} :
                  tb \in tables}

\* texts the callers submit
ExecSqlTexts ==
    { <<Word(STR_SELECT), Space(1), Sym("*"), Space(1),
        Word(STR_FROM), Space(1), Word(T_users)>>,                  \* SELECT * FROM users
      <<Word(STR_SELECT), Space(1), Word(<<"E","m","a","i","l">>), Space(1),
        Word(STR_FROM), Space(1), Word(T_users)>>,                  \* SELECT Email FROM users
      <<Word(STR_SELECT), Space(1), Word(C_id), Space(1),
        Word(STR_FROM), Space(1), Word(T_users), Sym(";")>>,        \* SELECT id FROM users;
      <<Word(<<"D","R","O","P">>), Space(1), Word(<<"T","A","B","L","E">>), Space(1),
        Word(T_users)>> }                                           \* DROP TABLE users

\* "SET statement_timeout = '30000'"
SetStatementTimeout ==
    <<Word(<<"S","E","T">>), Space(1), Word(<<"s","t","a","t","e","m","e","n","t","_","t","i","m","e","o","u","t">>), Space(1),
      Sym("="), Space(1), Sym("'"), Word(<<"3","0","0","0","0">>), Sym("'")>>

ErrNotFound(ds)     == Msg("Data source not found", <<ds>>, <<>>)
ErrNoTables         == Msg("No tables are authorized for this data source", <<>>, <<>>)
ErrExecution(cause) == Msg("Query execution error", <<cause>>, <<>>)

NoResult == [present |-> FALSE, columns |-> {}]

\* a Map without an entry for the id
NoPool == [pool |-> 0, lastUsed |-> 0]

\* a caller not inside executeGuardedQuery
IdleCall ==
    [pc |-> "idle", dataSourceId |-> "", sql |-> <<>>,
     allowedTables |-> <<>>, maskedColumns |-> <<>>, validation |-> NoValidation,
     safeSql |-> <<>>, pool |-> 0, errorMessage |-> "", result |-> NoResult,
     outcome |-> "none", returned |-> [result |-> NoResult, validation |-> NoValidation],
     logged |-> 0, audit |-> "", executed |-> FALSE, sent |-> <<>>,
     client |-> "none", obtainedAt |-> 0, idleFor |-> 0, created |-> FALSE,
     decrypted |-> 0]

\* return { result?, validation }
ReturnValue(c, res, v) ==
    [call[c] EXCEPT !.pc = "done", !.outcome = "returned",
                    !.returned = [result |-> res, validation |-> v]]

\* an exception leaves executeGuardedQuery
Throw(c, cause) ==
    [call[c] EXCEPT !.pc = "done", !.outcome = "thrown", !.errorMessage = cause]

\* createExternalPool: decrypt the secret, then new Pool(config)
createExternalPool(ds) ==
    IF DecryptSucceeds(ds)
    THEN [threw |-> FALSE, pool |-> poolCount + 1]
    ELSE [threw |-> TRUE, pool |-> 0]

\* the registry is not looked up: every call makes its own pool
getOrCreatePool_NoLookup(ds) ==
    LET made == createExternalPool(ds)
    IN  IF made.threw
        THEN [threw |-> TRUE, pool |-> 0, count |-> poolCount,
              created |-> FALSE, decrypted |-> 1, cache |-> poolCache]
        ELSE [threw |-> FALSE, pool |-> made.pool, count |-> poolCount + 1,
              created |-> TRUE, decrypted |-> 1,
              cache |-> [poolCache EXCEPT ![ds] = [pool |-> made.pool, lastUsed |-> now]]]

\* getOrCreatePool: the pool handed out, and the registry afterwards
getOrCreatePool(ds) ==
    IF poolCache[ds] # NoPool
    THEN [threw |-> FALSE, pool |-> poolCache[ds].pool, count |-> poolCount,
          created |-> FALSE, decrypted |-> 0,
          cache |-> [poolCache EXCEPT ![ds].lastUsed = now]]
    ELSE LET made == createExternalPool(ds)
         IN  IF made.threw
             THEN [threw |-> TRUE, pool |-> 0, count |-> poolCount,
                   created |-> FALSE, decrypted |-> 1, cache |-> poolCache]
             ELSE [threw |-> FALSE, pool |-> made.pool, count |-> poolCount + 1,
                   created |-> TRUE, decrypted |-> 1,
                   cache |-> [poolCache EXCEPT ![ds] = [pool |-> made.pool, lastUsed |-> now]]]

\* logQuery: one INSERT INTO query_audit_log
AuditRow(c, text, status, message) ==
    [dataSourceId |-> call[c].dataSourceId, queryText |-> text,
     status |-> status, errorMessage |-> message]

\* ------------------------------------------------------------------------
\* executeGuardedQuery, one action per stretch between two awaits
\* ------------------------------------------------------------------------

Begin(c, ds, text) ==
    /\ call[c].pc = "idle"
    /\ callsBegun < MaxCalls
    /\ callsBegun' = callsBegun + 1
    /\ call' = [call EXCEPT ![c] = [IdleCall EXCEPT !.pc = "getDataSource",
                                                    !.dataSourceId = ds, !.sql = text]]
    /\ UNCHANGED <<tablePermissions, poolCache, poolCount, endedPools, now, sweepDue,
                   auditLog>>

\* 1. await getDataSource(dataSourceId)
GetDataSource(c) ==
    /\ call[c].pc = "getDataSource"
    /\ \E ok \in BOOLEAN :
          call' = [call EXCEPT ![c] =
                      IF ~ok THEN Throw(c, "metadata store")
                      ELSE IF call[c].dataSourceId \notin DataSourceRows
                      THEN ReturnValue(c, NoResult,
                               [valid |-> FALSE,
                                errors |-> <<ErrNotFound(call[c].dataSourceId)>>,
                                warnings |-> <<>>])
                      ELSE [call[c] EXCEPT !.pc = "getAllowedTables"]]
    /\ UNCHANGED <<tablePermissions, poolCache, poolCount, endedPools, now, sweepDue,
                   auditLog, callsBegun>>

\* 2. await getAllowedTables(dataSourceId)
GetAllowedTables(c) ==
    /\ call[c].pc = "getAllowedTables"
    /\ \E ok \in BOOLEAN :
          call' = [call EXCEPT ![c] =
                      IF ~ok THEN Throw(c, "metadata store")
                      ELSE [call[c] EXCEPT
                               !.pc = "getMaskedColumns",
                               !.allowedTables = tablePermissions[call[c].dataSourceId].allowed]]
    /\ UNCHANGED <<tablePermissions, poolCache, poolCount, endedPools, now, sweepDue,
                   auditLog, callsBegun>>

\* the pool is fetched before the validation's verdict is looked at
GetMaskedColumns_PoolFirst(c) ==
    /\ call[c].pc = "getMaskedColumns"
    /\ \E ok \in BOOLEAN :
          LET ds     == call[c].dataSourceId
              masked == tablePermissions[ds].masked
              v      == validateQuery(call[c].sql, call[c].allowedTables, masked,
                                      DEFAULT_ROW_LIMIT)
              got    == getOrCreatePool(ds)
              loaded == [call[c] EXCEPT !.maskedColumns = masked]
          IN  IF ~ok
              THEN /\ call' = [call EXCEPT ![c] = Throw(c, "metadata store")]
                   /\ UNCHANGED <<poolCache, poolCount>>
              ELSE IF call[c].allowedTables = <<>>
              THEN /\ call' = [call EXCEPT ![c] =
                                  [ReturnValue(c, NoResult,
                                       [valid |-> FALSE, errors |-> <<ErrNoTables>>,
                                        warnings |-> <<>>])
                                   EXCEPT !.maskedColumns = masked]]
                   /\ UNCHANGED <<poolCache, poolCount>>
              ELSE IF got.threw
              THEN /\ call' = [call EXCEPT ![c] =
                                  [Throw(c, "decrypt") EXCEPT
                                      !.maskedColumns = masked, !.validation = v,
                                      !.decrypted = got.decrypted]]
                   /\ UNCHANGED <<poolCache, poolCount>>
              ELSE IF ~v.valid
              THEN /\ call' = [call EXCEPT ![c] =
                                  [loaded EXCEPT !.validation = v, !.pc = "logRejected"]]
                   /\ poolCache' = got.cache
                   /\ poolCount' = got.count
              ELSE IF got.threw
              THEN /\ call' = [call EXCEPT ![c] =
                                  [Throw(c, "decrypt") EXCEPT
                                      !.maskedColumns = masked, !.validation = v,
                                      !.safeSql = enforceLimit(call[c].sql, DEFAULT_ROW_LIMIT),
                                      !.decrypted = got.decrypted]]
                   /\ UNCHANGED <<poolCache, poolCount>>
              ELSE /\ call' = [call EXCEPT ![c] =
                                  [loaded EXCEPT
                                      !.validation = v,
                                      !.safeSql = enforceLimit(call[c].sql, DEFAULT_ROW_LIMIT),
                                      !.pool = got.pool,
                                      !.obtainedAt = now,
                                      !.idleFor = IF poolCache[ds] = NoPool THEN 0
                                                  ELSE now - poolCache[ds].lastUsed,
                                      !.created = got.created,
                                      !.decrypted = got.decrypted,
                                      !.pc = "connect"]]
                   /\ poolCache' = got.cache
                   /\ poolCount' = got.count
    /\ UNCHANGED <<tablePermissions, endedPools, now, sweepDue, auditLog, callsBegun>>

\* await getMaskedColumns(dataSourceId), then down to pool.connect():
\* the empty-permission return, validateQuery, enforceLimit, getOrCreatePool
GetMaskedColumns(c) ==
    /\ call[c].pc = "getMaskedColumns"
    /\ \E ok \in BOOLEAN :
          LET ds     == call[c].dataSourceId
              masked == tablePermissions[ds].masked
              v      == validateQuery(call[c].sql, call[c].allowedTables, masked,
                                      DEFAULT_ROW_LIMIT)
              got    == getOrCreatePool(ds)
              loaded == [call[c] EXCEPT !.maskedColumns = masked]
          IN  IF ~ok
              THEN /\ call' = [call EXCEPT ![c] = Throw(c, "metadata store")]
                   /\ UNCHANGED <<poolCache, poolCount>>
              ELSE IF call[c].allowedTables = <<>>
              THEN /\ call' = [call EXCEPT ![c] =
                                  [ReturnValue(c, NoResult,
                                       [valid |-> FALSE, errors |-> <<ErrNoTables>>,
                                        warnings |-> <<>>])
                                   EXCEPT !.maskedColumns = masked]]
                   /\ UNCHANGED <<poolCache, poolCount>>
              ELSE IF ~v.valid
              THEN /\ call' = [call EXCEPT ![c] =
                                  [loaded EXCEPT !.validation = v, !.pc = "logRejected"]]
                   /\ UNCHANGED <<poolCache, poolCount>>
              ELSE IF got.threw
              THEN /\ call' = [call EXCEPT ![c] =
                                  [Throw(c, "decrypt") EXCEPT
                                      !.maskedColumns = masked, !.validation = v,
                                      !.safeSql = enforceLimit(call[c].sql, DEFAULT_ROW_LIMIT),
                                      !.decrypted = got.decrypted]]
                   /\ UNCHANGED <<poolCache, poolCount>>
              ELSE /\ call' = [call EXCEPT ![c] =
                                  [loaded EXCEPT
                                      !.validation = v,
                                      !.safeSql = enforceLimit(call[c].sql, DEFAULT_ROW_LIMIT),
                                      !.pool = got.pool,
                                      !.obtainedAt = now,
                                      !.idleFor = IF poolCache[ds] = NoPool THEN 0
                                                  ELSE now - poolCache[ds].lastUsed,
                                      !.created = got.created,
                                      !.decrypted = got.decrypted,
                                      !.pc = "connect"]]
                   /\ poolCache' = got.cache
                   /\ poolCount' = got.count
    /\ UNCHANGED <<tablePermissions, endedPools, now, sweepDue, auditLog, callsBegun>>

\* the rejection is returned without its audit row
LogRejected_NoAudit(c) ==
    /\ call[c].pc = "logRejected"
    /\ auditLog' = auditLog
    /\ call' = [call EXCEPT ![c] = ReturnValue(c, NoResult, call[c].validation)]
    /\ UNCHANGED <<tablePermissions, poolCache, poolCount, endedPools, now, sweepDue,
                   callsBegun>>

\* 3. await logQuery({status: "rejected"}); return { validation }
LogRejected(c) ==
    /\ call[c].pc = "logRejected"
    /\ \E ok \in BOOLEAN :
          IF ok
          THEN /\ auditLog' = Append(auditLog,
                                  AuditRow(c, call[c].sql, "rejected", call[c].validation.errors))
               /\ call' = [call EXCEPT ![c] =
                              [ReturnValue(c, NoResult, call[c].validation)
                               EXCEPT !.logged = call[c].logged + 1, !.audit = "rejected"]]
          ELSE /\ auditLog' = auditLog
               /\ call' = [call EXCEPT ![c] = Throw(c, "metadata store")]
    /\ UNCHANGED <<tablePermissions, poolCache, poolCount, endedPools, now, sweepDue,
                   callsBegun>>

\* 5. await pool.connect(); a pool that was ended hands out no client
Connect(c) ==
    /\ call[c].pc = "connect"
    /\ \E ok \in BOOLEAN :
          call' = [call EXCEPT ![c] =
                      IF call[c].pool \in endedPools
                      THEN [call[c] EXCEPT !.pc = "logError", !.errorMessage = "pool ended"]
                      ELSE IF ok
                      THEN [call[c] EXCEPT !.pc = "setTimeout", !.client = "held"]
                      ELSE [call[c] EXCEPT !.pc = "logError", !.errorMessage = "connect"]]
    /\ UNCHANGED <<tablePermissions, poolCache, poolCount, endedPools, now, sweepDue,
                   auditLog, callsBegun>>

\* a failed SET is not looked at: the statement is sent all the same
SetTimeout_Ignored(c) ==
    /\ call[c].pc = "setTimeout"
    /\ \E ok \in BOOLEAN :
          call' = [call EXCEPT ![c] =
                      [call[c] EXCEPT !.pc = "query",
                                      !.sent = Append(call[c].sent, SetStatementTimeout),
                                      !.errorMessage = IF ok THEN "" ELSE "set timeout"]]
    /\ UNCHANGED <<tablePermissions, poolCache, poolCount, endedPools, now, sweepDue,
                   auditLog, callsBegun>>

\* await client.query("SET statement_timeout = '30000'"); a failure leaves
\* the inner try through finally { client.release() }
SetTimeout(c) ==
    /\ call[c].pc = "setTimeout"
    /\ \E ok \in BOOLEAN :
          LET sent == Append(call[c].sent, SetStatementTimeout)
          IN  call' = [call EXCEPT ![c] =
                          IF ok THEN [call[c] EXCEPT !.pc = "query", !.sent = sent]
                          ELSE [call[c] EXCEPT !.pc = "logError", !.sent = sent,
                                               !.client = "released",
                                               !.errorMessage = "set timeout"]]
    /\ UNCHANGED <<tablePermissions, poolCache, poolCount, endedPools, now, sweepDue,
                   auditLog, callsBegun>>

\* await client.query(safeSql, params); the result is built
Query(c) ==
    /\ call[c].pc = "query"
    /\ \E ok \in BOOLEAN :
          LET sent == Append(call[c].sent, call[c].safeSql)
          IN  call' = [call EXCEPT ![c] =
                          IF ok
                          THEN [call[c] EXCEPT
                                   !.pc = "logSuccess", !.executed = TRUE, !.sent = sent,
                                   !.result = [present |-> TRUE,
                                               columns |-> RemoteFields(call[c].safeSql)]]
                          ELSE [call[c] EXCEPT !.pc = "logError", !.sent = sent,
                                               !.client = "released",
                                               !.errorMessage = "statement"]]
    /\ UNCHANGED <<tablePermissions, poolCache, poolCount, endedPools, now, sweepDue,
                   auditLog, callsBegun>>

\* 6. await logQuery({status: "success"}); return { result, validation };
\* either way the inner try is left through finally { client.release() },
\* and a rejected INSERT is caught by the catch around the execution
LogSuccess(c) ==
    /\ call[c].pc = "logSuccess"
    /\ \E ok \in BOOLEAN :
          IF ok
          THEN /\ auditLog' = Append(auditLog, AuditRow(c, call[c].safeSql, "success", <<>>))
               /\ call' = [call EXCEPT ![c] =
                              [ReturnValue(c, call[c].result, call[c].validation)
                               EXCEPT !.logged = call[c].logged + 1, !.audit = "success",
                                      !.client = "released"]]
          ELSE /\ auditLog' = auditLog
               /\ call' = [call EXCEPT ![c] =
                              [call[c] EXCEPT !.pc = "logError",
                                              !.client = "released",
                                              !.errorMessage = "metadata store"]]
    /\ UNCHANGED <<tablePermissions, poolCache, poolCount, endedPools, now, sweepDue,
                   callsBegun>>

\* catch (err): await logQuery({status: "error"}); return the failed validation
LogError(c) ==
    /\ call[c].pc = "logError"
    /\ \E ok \in BOOLEAN :
          IF ok
          THEN /\ auditLog' = Append(auditLog,
                                  AuditRow(c, call[c].safeSql, "error",
                                           <<call[c].errorMessage>>))
               /\ call' = [call EXCEPT ![c] =
                              [ReturnValue(c, NoResult,
                                   [valid |-> FALSE,
                                    errors |-> <<ErrExecution(call[c].errorMessage)>>,
                                    warnings |-> call[c].validation.warnings])
                               EXCEPT !.logged = call[c].logged + 1, !.audit = "error"]]
          ELSE /\ auditLog' = auditLog
               /\ call' = [call EXCEPT ![c] = Throw(c, "metadata store")]
    /\ UNCHANGED <<tablePermissions, poolCache, poolCount, endedPools, now, sweepDue,
                   callsBegun>>

\* the caller has taken the outcome
Finish(c) ==
    /\ call[c].pc = "done"
    /\ call' = [call EXCEPT ![c] = IdleCall]
    /\ UNCHANGED <<tablePermissions, poolCache, poolCount, endedPools, now, sweepDue,
                   auditLog, callsBegun>>

\* ------------------------------------------------------------------------
\* The clock and the periodic cleanup of idle pools
\* ------------------------------------------------------------------------

\* the clock runs on while a call waits for its client
Advance_NoConnectTimeout ==
    /\ ~sweepDue
    /\ \E ds \in DataSourceIds : poolCache[ds] # NoPool
    /\ now < MaxTicks * SWEEP_INTERVAL_MS
    /\ now' = now + SWEEP_INTERVAL_MS
    /\ sweepDue' = TRUE
    /\ UNCHANGED <<tablePermissions, poolCache, poolCount, endedPools, auditLog,
                   call, callsBegun>>

\* a timer period passes; the cleanup callback becomes due.  The clock is
\* only ever read against an entry's lastUsed, so the periods that pass
\* while the registry is empty are not counted.
\* pool.connect() was called in the stretch that fetched the pool and
\* settles within connectionTimeoutMillis: the clock, read at a timer
\* period's start, does not run a further period past that wait
Advance ==
    /\ ~sweepDue
    /\ \A c \in CallerIds :
          call[c].pc = "connect" => now - call[c].obtainedAt < CONNECTION_TIMEOUT_MS
    /\ \E ds \in DataSourceIds : poolCache[ds] # NoPool
    /\ now < MaxTicks * SWEEP_INTERVAL_MS
    /\ now' = now + SWEEP_INTERVAL_MS
    /\ sweepDue' = TRUE
    /\ UNCHANGED <<tablePermissions, poolCache, poolCount, endedPools, auditLog,
                   call, callsBegun>>

\* every pool not used since the last period is ended, whatever the TTL
Sweep_NoTtl ==
    /\ sweepDue
    /\ sweepDue' = FALSE
    /\ LET idle == {ds \in DataSourceIds :
                      poolCache[ds] # NoPool /\ now - poolCache[ds].lastUsed > 0}
       IN  /\ endedPools' = endedPools \cup {poolCache[ds].pool : ds \in idle}
           /\ poolCache' = [ds \in DataSourceIds |->
                               IF ds \in idle THEN NoPool ELSE poolCache[ds]]
    /\ UNCHANGED <<tablePermissions, poolCount, now, auditLog, call, callsBegun>>

\* the setInterval callback: end and forget every pool idle beyond the TTL
Sweep ==
    /\ sweepDue
    /\ sweepDue' = FALSE
    /\ LET idle == {ds \in DataSourceIds :
                      poolCache[ds] # NoPool /\ now - poolCache[ds].lastUsed > POOL_TTL_MS}
       IN  /\ endedPools' = endedPools \cup {poolCache[ds].pool : ds \in idle}
           /\ poolCache' = [ds \in DataSourceIds |->
                               IF ds \in idle THEN NoPool ELSE poolCache[ds]]
    /\ UNCHANGED <<tablePermissions, poolCount, now, auditLog, call, callsBegun>>

\* ------------------------------------------------------------------------
\* anomaly-service: constants, schema analysis, query generation, detection
\* ------------------------------------------------------------------------

\* scan records created in one behaviour
MaxScans == 2

MAX_QUERIES_PER_SCAN == 10
MAX_ROW_ESTIMATE_FOR_SCAN == 1000000

NUMERIC_TYPES ==
    { <<"i","n","t","e","g","e","r">>,
      <<"b","i","g","i","n","t">>,
      <<"s","m","a","l","l","i","n","t">>,
      <<"n","u","m","e","r","i","c">>,
      <<"d","e","c","i","m","a","l">>,
      <<"r","e","a","l">>,
      <<"d","o","u","b","l","e"," ","p","r","e","c","i","s","i","o","n">>,
      <<"m","o","n","e","y">> }

TIMESTAMP_TYPES ==
    { <<"t","i","m","e","s","t","a","m","p"," ","w","i","t","h","o","u","t"," ","t","i","m","e"," ","z","o","n","e">>,
      <<"t","i","m","e","s","t","a","m","p"," ","w","i","t","h"," ","t","i","m","e"," ","z","o","n","e">>,
      <<"d","a","t","e">>,
      <<"t","i","m","e","s","t","a","m","p","t","z">>,
      <<"t","i","m","e","s","t","a","m","p">> }

\* /created|order_date|date|timestamp|placed_at|occurred/i
TIME_NAME_PARTS ==
    { <<"c","r","e","a","t","e","d">>,
      <<"o","r","d","e","r","_","d","a","t","e">>,
      <<"d","a","t","e">>,
      <<"t","i","m","e","s","t","a","m","p">>,
      <<"p","l","a","c","e","d","_","a","t">>,
      <<"o","c","c","u","r","r","e","d">> }

\* callers of runAnomalyScan; one scan follows the other
RunIds == {"r1"}

Column(name, dataType, isPrimaryKey) ==
    [name |-> name, dataType |-> dataType, isPrimaryKey |-> isPrimaryKey]

T_events == <<"e","v","e","n","t","s">>
TY_integer == <<"i","n","t","e","g","e","r">>
TY_Numeric == <<"N","u","m","e","r","i","c">>
TY_text == <<"t","e","x","t">>
TY_timestamptz == <<"t","i","m","e","s","t","a","m","p","t","z">>
TY_date == <<"d","a","t","e">>

\* tables as introspection may have cached them
TableOrders ==
    [name |-> <<"O","r","d","e","r","s">>, rowCount |-> 1200,
     columns |-> << Column(C_id, TY_integer, TRUE),
                    Column(<<"t","o","t","a","l">>, TY_Numeric, FALSE),
                    Column(<<"s","h","i","p","p","e","d">>, TY_date, FALSE),
                    Column(<<"C","r","e","a","t","e","d","_","A","t">>, TY_timestamptz, FALSE) >>]

TableUsers ==
    [name |-> T_users, rowCount |-> 40,
     columns |-> << Column(C_id, TY_integer, TRUE),
                    Column(C_email, TY_text, FALSE),
                    Column(<<"j","o","i","n","e","d">>, TY_timestamptz, FALSE) >>]

TableEvents ==
    [name |-> T_events, rowCount |-> MAX_ROW_ESTIMATE_FOR_SCAN + 1,
     columns |-> << Column(<<"w","e","i","g","h","t">>, TY_integer, FALSE),
                    Column(<<"a","t">>, TY_timestamptz, FALSE) >>]

\* schema_cache.schema_data of a data source
CachedSchemas ==
    { [tables |-> <<TableUsers>>],
      [tables |-> <<TableEvents, TableOrders>>] }

\* getAllowedTables as the scan may find it
ScanAllowedTableLists == { <<>>, <<T_Users>>, <<T_Users, T_orders, T_events>> }

\* the name holds one of the parts, in either case
HasTimeName(name) == \E part \in TIME_NAME_PARTS : includes(toLowerCase(name), part)

\* Array.prototype.slice(0, n)
Slice(seq, n) == SubSeq(seq, 1, IF Len(seq) < n THEN Len(seq) ELSE n)

\* the candidates one table contributes
TableCandidates(table, allowedNames) ==
    LET allowedSet == {toLowerCase(allowedNames[i]) : i \in DOMAIN allowedNames}
        timeCols == SelectSeq(table.columns,
                        LAMBDA c : toLowerCase(c.dataType) \in TIMESTAMP_TYPES)
        numCols  == SelectSeq(table.columns,
                        LAMBDA c : toLowerCase(c.dataType) \in NUMERIC_TYPES /\ ~c.isPrimaryKey)
        named    == SelectSeq(timeCols, LAMBDA c : HasTimeName(c.name))
        bestTimeCol == IF named # <<>> THEN named[1] ELSE timeCols[1]
        capped   == Slice(numCols, 3)
    IN  IF toLowerCase(table.name) \notin allowedSet THEN <<>>
        ELSE IF table.rowCount > MAX_ROW_ESTIMATE_FOR_SCAN THEN <<>>
        ELSE IF timeCols = <<>> \/ numCols = <<>> THEN <<>>
        ELSE [i \in 1..Len(capped) |->
                 [table |-> table, numericCol |-> capped[i], timeCol |-> bestTimeCol]]

RECURSIVE findMetricCandidatesFrom(_, _, _)
findMetricCandidatesFrom(tables, i, allowedNames) ==
    IF i > Len(tables) THEN <<>>
    ELSE TableCandidates(tables[i], allowedNames)
            \o findMetricCandidatesFrom(tables, i + 1, allowedNames)

findMetricCandidates(schema, allowedNames) ==
    findMetricCandidatesFrom(schema.tables, 1, allowedNames)

\* "name", an identifier in double quotes
QuotedIdentifier(name) == <<Sym("\""), Word(name), Sym("\"")>>

\* 'label', a string literal of one word
Literal(label) == <<Sym("'"), Word(label), Sym("'")>>

\* NOW() - INTERVAL 'n days'
DaysAgo(days) ==
    <<Word(<<"N","O","W">>), Sym("("), Sym(")"), Space(1), Sym("-"), Space(1),
      Word(<<"I","N","T","E","R","V","A","L">>), Space(1),
      Sym("'"), Word(days), Space(1), Word(<<"d","a","y","s">>), Sym("'")>>

\* one SELECT of the template literal, from its SELECT to the end of its
\* first condition; a line break and its indentation make one run of blanks
PeriodSelect(label, q, days) ==
    <<Word(STR_SELECT), Space(11)>> \o Literal(label)
    \o <<Space(1), Word(<<"A","S">>), Space(1), Word(<<"p","e","r","i","o","d">>), Sym(","),
         Space(11), Word(<<"C","O","A","L","E","S","C","E">>), Sym("("),
         Word(<<"S","U","M">>), Sym("(")>>
    \o QuotedIdentifier(q.numericCol)
    \o <<Sym(")"), Sym(","), Space(1), Word(<<"0">>), Sym(")"), Space(1),
         Word(<<"A","S">>), Space(1), Word(<<"t","o","t","a","l">>), Sym(","),
         Space(11), Word(<<"C","O","U","N","T">>), Sym("("), Sym("*"), Sym(")"), Space(1),
         Word(<<"A","S">>), Space(1), Word(<<"r","o","w","_","c","o","u","n","t">>),
         Space(9), Word(STR_FROM), Space(1)>>
    \o QuotedIdentifier(q.table)
    \o <<Space(9), Word(<<"W","H","E","R","E">>), Space(1)>>
    \o QuotedIdentifier(q.timeCol)
    \o <<Space(1), Sym(">"), Sym("="), Space(1)>> \o DaysAgo(days)

\* the text of a comparison query: the recent period, UNION ALL, the period
\* before it, which ends where the recent one begins
ComparisonSql(q) ==
    LET week   == q.period = "Week-over-week"
        recent == IF week THEN <<"t","h","i","s","_","w","e","e","k">>
                  ELSE <<"r","e","c","e","n","t","_","3","0","d">>
        prior  == IF week THEN <<"l","a","s","t","_","w","e","e","k">>
                  ELSE <<"p","r","i","o","r","_","3","0","d">>
        near   == IF week THEN <<"7">> ELSE <<"3","0">>
        far    == IF week THEN <<"1","4">> ELSE <<"6","0">>
    IN  PeriodSelect(recent, q, near)
        \o <<Space(9), Word(<<"U","N","I","O","N">>), Space(1), Word(<<"A","L","L">>), Space(9)>>
        \o PeriodSelect(prior, q, far)
        \o <<Space(11), Word(<<"A","N","D">>), Space(1)>>
        \o QuotedIdentifier(q.timeCol)
        \o <<Space(1), Sym("<"), Space(1)>> \o DaysAgo(near)

\* a comparison query; sql stands for the text, which the period, the table
\* and the two columns determine
ComparisonQuery(period, candidate) ==
    [description |-> period,
     tableName   |-> candidate.table.name,
     columnName  |-> candidate.numericCol.name,
     sql         |-> [period |-> period, table |-> candidate.table.name,
                      numericCol |-> candidate.numericCol.name,
                      timeCol |-> candidate.timeCol.name]]

RECURSIVE generateComparisonQueriesFrom(_, _, _)
generateComparisonQueriesFrom(candidates, i, queries) ==
    IF i > Len(candidates) \/ Len(queries) >= MAX_QUERIES_PER_SCAN THEN queries
    ELSE LET week == Append(queries, ComparisonQuery("Week-over-week", candidates[i]))
         IN  IF Len(week) >= MAX_QUERIES_PER_SCAN THEN week
             ELSE generateComparisonQueriesFrom(candidates, i + 1,
                      Append(week, ComparisonQuery("30-day trend", candidates[i])))

\* both queries of every candidate, however many there are
generateComparisonQueries_Uncapped(candidates) ==
    [k \in 1..(2 * Len(candidates)) |->
        ComparisonQuery(IF k % 2 = 1 THEN "Week-over-week" ELSE "30-day trend",
                        candidates[(k + 1) \div 2])]

generateComparisonQueries(candidates) ==
    Slice(generateComparisonQueriesFrom(candidates, 1, <<>>), MAX_QUERIES_PER_SCAN)

Abs(n) == IF n < 0 THEN 0 - n ELSE n

\* Math.round(n / d) for d > 0: the nearest integer, halves upwards
RoundDiv(n, d) == (2 * n + d) \div (2 * d)

\* the difference is divided by previous, not by its absolute value
ChangeTenths_SignedDenominator(current, previous) ==
    IF previous > 0 THEN RoundDiv((current - previous) * 1000, previous)
    ELSE IF previous < 0 THEN RoundDiv((previous - current) * 1000, 0 - previous)
    ELSE IF current > 0 THEN 1000
    ELSE 0

\* Math.floor in place of Math.round
ChangeTenths_Floor(current, previous) ==
    IF previous # 0 THEN ((current - previous) * 1000) \div Abs(previous)
    ELSE IF current > 0 THEN 1000
    ELSE 0

\* Math.round(changePercent * 10), changePercent being
\* ((current - previous) / |previous|) * 100, or 100 from zero to a gain
ChangeTenths(current, previous) ==
    IF previous # 0 THEN RoundDiv((current - previous) * 1000, Abs(previous))
    ELSE IF current > 0 THEN 1000
    ELSE 0

\* the thresholds are compared with > in place of >=
AbsChangeAtLeast_Strict(current, previous, t) ==
    IF previous # 0 THEN Abs(current - previous) * 100 > t * Abs(previous)
    ELSE IF current > 0 THEN 100 > t
    ELSE 0 > t

\* Math.abs(changePercent) >= t
AbsChangeAtLeast(current, previous, t) ==
    IF previous # 0 THEN Abs(current - previous) * 100 >= t * Abs(previous)
    ELSE IF current > 0 THEN 100 >= t
    ELSE 0 >= t

\* the alert one result yields, or none
DetectOne(raw) ==
    LET current  == raw.rows[1].total
        previous == raw.rows[2].total
    IN  IF Len(raw.rows) < 2 THEN <<>>
        ELSE IF current = 0 /\ previous = 0 THEN <<>>
        ELSE IF ~AbsChangeAtLeast(current, previous, 20) THEN <<>>
        ELSE << [severity |-> IF AbsChangeAtLeast(current, previous, 50) THEN "critical"
                              ELSE IF AbsChangeAtLeast(current, previous, 30) THEN "warning"
                              ELSE "info",
                 wording  |-> "heuristic",
                 period   |-> IF raw.query.description = "30-day trend"
                              THEN "month-over-month" ELSE "week-over-week",
                 tableName  |-> raw.query.tableName,
                 columnName |-> raw.query.columnName,
                 currentValue  |-> current,
                 previousValue |-> previous,
                 changeTenths  |-> ChangeTenths(current, previous),
                 queryUsed |-> raw.query.sql] >>

RECURSIVE heuristicDetect(_)
heuristicDetect(results) ==
    IF results = <<>> THEN <<>>
    ELSE DetectOne(results[1]) \o heuristicDetect(Tail(results))

\* the rewrite of the wording by the language model, entry by entry
Enhanced(anomalies) ==
    [i \in DOMAIN anomalies |-> [anomalies[i] EXCEPT !.wording = "llm"]]

\* the array holds {index: 0} and no more: metricName, description and detail
\* of the first alert are assigned undefined
LacksFields(anomalies) ==
    [anomalies EXCEPT ![1] = [anomalies[1] EXCEPT !.wording = "missing"]]

\* the array holds a well-formed entry for the first alert and then null:
\* the first alert is rewritten before item.index throws into the catch
PartlyEnhanced(anomalies) ==
    [anomalies EXCEPT ![1] = [anomalies[1] EXCEPT !.wording = "llm"]]

\* what generateText may answer
RewriteAnswers ==
    {"rewritten", "no json", "threw", "unparsable", "lacks fields", "malformed entry"}

\* rows a comparison query may return: total and row_count per period
ResultRows ==
    { <<>>,
      << [total |-> 150, row_count |-> 3], [total |-> 100, row_count |-> 2] >>,
      << [total |-> 100, row_count |-> 2], [total |-> 100, row_count |-> 2] >> }

\* what executeGuardedQuery hands the scan: an exception, a validation
\* without a result, or a result with rows
GuardedOutcomes ==
    { [threw |-> TRUE, present |-> FALSE, rows |-> <<>>],
      [threw |-> FALSE, present |-> FALSE, rows |-> <<>>] }
    \cup { [threw |-> FALSE, present |-> TRUE, rows |-> rows] : rows \in ResultRows }

NoSchema == [tables |-> <<>>]

\* a caller not inside runAnomalyScan
IdleRun ==
    [pc |-> "idle", dataSourceId |-> "", scanId |-> 0, schema |-> NoSchema,
     comparisonQueries |-> <<>>, next |-> 1, rawResults |-> <<>>, scannedTables |-> {},
     anomalies |-> <<>>, persisted |-> 0, errorMessage |-> "", outcome |-> "none",
     returned |-> [scanId |-> 0, alerts |-> <<>>], failures |-> 0, rewrite |-> "none",
     reads |-> {}, candidates |-> <<>>]

\* the anomaly service while it is not exercised
ScanAtRest ==
    /\ scans = <<>>
    /\ alerts = <<>>
    /\ llmEnabled = TRUE
    /\ run = [r \in RunIds |-> IdleRun]

ExecInit ==
    /\ tablePermissions \in PermissionStores
    /\ poolCache = [ds \in DataSourceIds |-> NoPool]
    /\ poolCount = 0
    /\ endedPools = {}
    /\ now = 0
    /\ sweepDue = FALSE
    /\ auditLog = <<>>
    /\ call = [c \in CallerIds |-> IdleCall]
    /\ callsBegun = 0

\* the executor's state while only the validator is exercised
ExecAtRest ==
    /\ tablePermissions = [ds \in DataSourceRows |-> [allowed |-> <<>>, masked |-> <<>>]]
    /\ poolCache = [ds \in DataSourceIds |-> NoPool]
    /\ poolCount = 0
    /\ endedPools = {}
    /\ now = 0
    /\ sweepDue = FALSE
    /\ auditLog = <<>>
    /\ call = [c \in CallerIds |-> IdleCall]
    /\ callsBegun = 0

\* the validator's variables while the executor runs
GuardAtRest ==
    /\ sql = <<>>
    /\ allowedTables = <<>>
    /\ maskedColumns = <<>>
    /\ validation = NoValidation
    /\ phase = "input"
    /\ maxRows = DEFAULT_ROW_LIMIT
    /\ limited = <<>>

Init == GuardAtRest /\ ExecInit /\ ScanAtRest

Next ==
    \/ \E c \in CallerIds, ds \in DataSourceIds, text \in ExecSqlTexts :
          Begin(c, ds, text) /\ UNCHANGED <<guardVars, scanVars>>
    \/ \E c \in CallerIds : GetDataSource(c) /\ UNCHANGED <<guardVars, scanVars>>
    \/ \E c \in CallerIds : GetAllowedTables(c) /\ UNCHANGED <<guardVars, scanVars>>
    \/ \E c \in CallerIds : GetMaskedColumns(c) /\ UNCHANGED <<guardVars, scanVars>>
    \/ \E c \in CallerIds : LogRejected(c) /\ UNCHANGED <<guardVars, scanVars>>
    \/ \E c \in CallerIds : Connect(c) /\ UNCHANGED <<guardVars, scanVars>>
    \/ \E c \in CallerIds : SetTimeout(c) /\ UNCHANGED <<guardVars, scanVars>>
    \/ \E c \in CallerIds : Query(c) /\ UNCHANGED <<guardVars, scanVars>>
    \/ \E c \in CallerIds : LogSuccess(c) /\ UNCHANGED <<guardVars, scanVars>>
    \/ \E c \in CallerIds : LogError(c) /\ UNCHANGED <<guardVars, scanVars>>
    \/ \E c \in CallerIds : Finish(c) /\ UNCHANGED <<guardVars, scanVars>>
    \/ Advance /\ UNCHANGED <<guardVars, scanVars>>
    \/ Sweep /\ UNCHANGED <<guardVars, scanVars>>

Spec == Init /\ [][Next]_vars

\* ------------------------------------------------------------------------
\* The validator on its own
\* ------------------------------------------------------------------------

\* "DROP TABLE users"
DropTableUsers ==
    <<Word(<<"D","R","O","P">>), Space(1), Word(<<"T","A","B","L","E">>), Space(1),
      Word(T_users)>>

GuardInit ==
    /\ ExecAtRest
    /\ ScanAtRest
    /\ sql \in SqlTexts \cup {DropTableUsers}
    /\ allowedTables \in AllowedTableLists \cup {<<T_users>>}
    /\ maskedColumns \in MaskedColumnMaps
    /\ validation = NoValidation
    /\ phase = "input"
    /\ maxRows = DEFAULT_ROW_LIMIT
    /\ limited = <<>>

Validate ==
    /\ phase = "input"
    /\ validation' = validateQuery(sql, allowedTables, maskedColumns, DEFAULT_ROW_LIMIT)
    /\ phase' = "validated"
    /\ UNCHANGED <<sql, allowedTables, maskedColumns, maxRows, limited>>
    /\ UNCHANGED <<execVars, scanVars>>

GuardNext == Validate

SpecValidate == GuardInit /\ [][GuardNext]_vars

\* ------------------------------------------------------------------------
\* enforceLimit on its own
\* ------------------------------------------------------------------------

C_rate_limit == <<"r","a","t","e","_","l","i","m","i","t">>

\* how a text handed to enforceLimit can begin
LimitHeadFragments ==
    { <<Word(STR_SELECT), Space(1)>>,                                  \* "SELECT "
      <<Space(1), Word(<<"s","e","l","e","c","t">>), Space(1)>> }      \* " select "

\* what can follow
LimitBodyFragments ==
    { <<Sym("*"), Space(1)>>,                                          \* "* "
      <<Word(C_rate_limit), Space(1)>>,                                \* "rate_limit "
      <<Word(STR_FROM), Space(1), Word(T_users), Space(1)>>,           \* "FROM users "
      <<Word(STR_LIMIT), Space(1), Word(<<"5","0">>)>>,                \* "LIMIT 50"
      <<Word(<<"l","i","m","i","t">>), Space(1), Word(<<"5">>), Space(1)>>, \* "limit 5 "
      <<Sym(";")>>,                                                    \* ";"
      <<Sym(";"), Space(2)>> }                                         \* ";  "

RECURSIVE LimitFragmentRuns(_)
LimitFragmentRuns(n) ==
    IF n = 0 THEN {<<>>}
    ELSE LET shorter == LimitFragmentRuns(n - 1)
         IN  shorter \cup {Concat(r, f) : r \in shorter, f \in LimitBodyFragments}

LimitTexts ==
    {Concat(h, r) : h \in LimitHeadFragments, r \in LimitFragmentRuns(MaxFragments)}

\* maxRows: the default and a limit given by the caller
RowLimits == {DEFAULT_ROW_LIMIT, 50}

LimitInit ==
    /\ ExecAtRest
    /\ ScanAtRest
    /\ sql \in LimitTexts
    /\ allowedTables = <<T_users>>
    /\ maskedColumns = <<>>
    /\ validation = NoValidation
    /\ phase = "input"
    /\ maxRows \in RowLimits
    /\ limited = <<>>

\* const safeSql = enforceLimit(sql, maxRows)
EnforceLimit ==
    /\ phase = "input"
    /\ limited' = <<enforceLimit(sql, maxRows)>>
    /\ phase' = "limited"
    /\ UNCHANGED <<sql, allowedTables, maskedColumns, validation, maxRows>>
    /\ UNCHANGED <<execVars, scanVars>>

\* enforceLimit applied to the text enforceLimit returned
EnforceLimitAgain ==
    /\ phase = "limited"
    /\ limited' = Append(limited, enforceLimit(limited[1], maxRows))
    /\ phase' = "relimited"
    /\ UNCHANGED <<sql, allowedTables, maskedColumns, validation, maxRows>>
    /\ UNCHANGED <<execVars, scanVars>>

LimitNext == EnforceLimit \/ EnforceLimitAgain

SpecLimit == LimitInit /\ [][LimitNext]_vars


\* ------------------------------------------------------------------------
\* runAnomalyScan, one action per stretch between two awaits
\* ------------------------------------------------------------------------

\* ids a caller may pass; "ds0" has no row in data_sources
ScanDataSourceIds == {"ds0", "ds1"}

\* an argument left out, and a column that is NULL
Null == 0 - 1

NoExtra ==
    [tablesScanned |-> Null, queriesRun |-> Null, alertsFound |-> Null, errorMessage |-> ""]

MsgNoSchema == "No cached schema available"
MsgNoTables == "No authorized tables to scan"

TerminalStatuses == {"completed", "failed"}

\* createScan: the row INSERT INTO anomaly_scans leaves, column defaults applied;
\* writes counts the UPDATEs applied to the row and serves as its clock
NewScan(ds) ==
    [dataSourceId |-> ds, status |-> "pending", tablesScanned |-> 0, queriesRun |-> 0,
     alertsFound |-> 0, errorMessage |-> "", completedAt |-> Null, writes |-> 0]

Coalesce(value, old) == IF value = Null THEN old ELSE value

\* updateScanStatus: the table after the UPDATE
updateScanStatus(scanId, status, extra) ==
    LET old == scans[scanId]
    IN  [scans EXCEPT ![scanId] =
            [old EXCEPT
                !.status        = status,
                !.tablesScanned = Coalesce(extra.tablesScanned, old.tablesScanned),
                !.queriesRun    = Coalesce(extra.queriesRun, old.queriesRun),
                !.alertsFound   = Coalesce(extra.alertsFound, old.alertsFound),
                !.errorMessage  = IF extra.errorMessage = "" THEN old.errorMessage
                                  ELSE extra.errorMessage,
                !.completedAt   = IF status \in TerminalStatuses THEN old.writes + 1
                                  ELSE old.completedAt,
                !.writes        = old.writes + 1]]

\* return { scanId, alerts }
ScanReturn(r, found) ==
    [run[r] EXCEPT !.pc = "done", !.outcome = "returned",
                   !.returned = [scanId |-> run[r].scanId, alerts |-> found]]

\* an exception leaves runAnomalyScan
ScanThrow(r, cause) ==
    [run[r] EXCEPT !.pc = "done", !.outcome = "thrown", !.errorMessage = cause]

\* the try block is left for catch (err)
ScanCatch(r, cause) ==
    [run[r] EXCEPT !.pc = "catch", !.errorMessage = cause]

BeginScan(r, ds) ==
    /\ run[r].pc = "idle"
    /\ Len(scans) < MaxScans
    /\ run' = [run EXCEPT ![r] = [IdleRun EXCEPT !.pc = "createScan", !.dataSourceId = ds]]
    /\ UNCHANGED <<scans, alerts, llmEnabled>>

\* const scanId = await createScan(dataSourceId, userId), outside the try
CreateScan(r) ==
    /\ run[r].pc = "createScan"
    /\ \E ok \in BOOLEAN :
          IF ok /\ run[r].dataSourceId \in DataSourceRows
          THEN /\ scans' = Append(scans, NewScan(run[r].dataSourceId))
               /\ run' = [run EXCEPT ![r] =
                             [run[r] EXCEPT !.pc = "updateRunning", !.scanId = Len(scans) + 1]]
          ELSE /\ scans' = scans
               /\ run' = [run EXCEPT ![r] = ScanThrow(r, "metadata store")]
    /\ UNCHANGED <<alerts, llmEnabled>>

\* await updateScanStatus(scanId, "running")
UpdateRunning(r) ==
    /\ run[r].pc = "updateRunning"
    /\ \E ok \in BOOLEAN :
          IF ok
          THEN /\ scans' = updateScanStatus(run[r].scanId, "running", NoExtra)
               /\ run' = [run EXCEPT ![r] = [run[r] EXCEPT !.pc = "getCachedSchema"]]
          ELSE /\ scans' = scans
               /\ run' = [run EXCEPT ![r] = ScanCatch(r, "metadata store")]
    /\ UNCHANGED <<alerts, llmEnabled>>

\* 1. const schema = await getCachedSchema(dataSourceId)
GetCachedSchema(r) ==
    /\ run[r].pc = "getCachedSchema"
    /\ \/ run' = [run EXCEPT ![r] = ScanCatch(r, "metadata store")]
       \/ run' = [run EXCEPT ![r] = [run[r] EXCEPT !.pc = "failNoSchema"]]
       \/ \E schema \in CachedSchemas :
             run' = [run EXCEPT ![r] =
                        [run[r] EXCEPT !.pc = "getAllowedTables", !.schema = schema]]
    /\ UNCHANGED <<scans, alerts, llmEnabled>>

\* await updateScanStatus(scanId, "failed", {errorMessage}); return no alerts
FailEarly(r, at, message) ==
    /\ run[r].pc = at
    /\ \E ok \in BOOLEAN :
          IF ok
          THEN /\ scans' = updateScanStatus(run[r].scanId, "failed",
                                [NoExtra EXCEPT !.errorMessage = message])
               /\ run' = [run EXCEPT ![r] = ScanReturn(r, <<>>)]
          ELSE /\ scans' = scans
               /\ run' = [run EXCEPT ![r] = ScanCatch(r, "metadata store")]
    /\ UNCHANGED <<alerts, llmEnabled>>

FailNoSchema(r) == FailEarly(r, "failNoSchema", MsgNoSchema)

FailNoTables(r) == FailEarly(r, "failNoTables", MsgNoTables)

\* 2. await getAllowedTables(dataSourceId); 3. findMetricCandidates;
\* 4. generateComparisonQueries
GetAllowedTablesForScan(r) ==
    /\ run[r].pc = "getAllowedTables"
    /\ \/ run' = [run EXCEPT ![r] = ScanCatch(r, "metadata store")]
       \/ \E allowed \in ScanAllowedTableLists :
             LET candidates == findMetricCandidates(run[r].schema, allowed)
             IN  run' = [run EXCEPT ![r] =
                            IF allowed = <<>>
                            THEN [run[r] EXCEPT !.pc = "failNoTables"]
                            ELSE IF candidates = <<>>
                            THEN [run[r] EXCEPT !.pc = "completeEmpty"]
                            ELSE [run[r] EXCEPT
                                     !.pc = "executeQuery",
                                     !.candidates = candidates,
                                     !.comparisonQueries =
                                         generateComparisonQueries(candidates)]]
    /\ UNCHANGED <<scans, alerts, llmEnabled>>

\* no candidates: await updateScanStatus(scanId, "completed", zeros); return
CompleteEmpty(r) ==
    /\ run[r].pc = "completeEmpty"
    /\ \E ok \in BOOLEAN :
          IF ok
          THEN /\ scans' = updateScanStatus(run[r].scanId, "completed",
                                [NoExtra EXCEPT !.tablesScanned = 0, !.queriesRun = 0,
                                                !.alertsFound = 0])
               /\ run' = [run EXCEPT ![r] = ScanReturn(r, <<>>)]
          ELSE /\ scans' = scans
               /\ run' = [run EXCEPT ![r] = ScanCatch(r, "metadata store")]
    /\ UNCHANGED <<alerts, llmEnabled>>

\* where the pipeline goes once the loop over the queries is over:
\* 6. heuristicDetect; 7. llmEnhance awaits the model only for a non-empty
\* list with LLM_ENABLED; 8. persistAlerts awaits once per alert
AfterQueries(k) ==
    LET found == heuristicDetect(k.rawResults)
    IN  [k EXCEPT !.anomalies = found,
                  !.pc = IF found = <<>> THEN "complete"
                         ELSE IF llmEnabled THEN "llmEnhance"
                         ELSE "persistAlerts"]

\* executeGuardedQuery goes on to the remote database: some table is
\* authorized and validateQuery finds nothing wrong with the text
ExecutorAdmits(cq, allowedNow, masked) ==
    /\ allowedNow # <<>>
    /\ validateQuery(ComparisonSql(cq.sql), allowedNow, masked, DEFAULT_ROW_LIMIT).valid

\* the exception of executeGuardedQuery leaves the loop for catch (err)
ExecuteQuery_ThrowAborts(r) ==
    /\ run[r].pc = "executeQuery"
    /\ \E out \in GuardedOutcomes, allowedNow \in ScanAllowedTableLists,
          masked \in MaskedColumnMaps :
          LET cq     == run[r].comparisonQueries[run[r].next]
              usable == ~out.threw /\ out.present /\ Len(out.rows) > 0
              looped == [run[r] EXCEPT
                            !.next = run[r].next + 1,
                            !.failures = IF out.threw \/ ~out.present
                                         THEN run[r].failures + 1 ELSE run[r].failures,
                            !.reads = IF out.present
                                      THEN run[r].reads \cup
                                              {[table |-> cq.tableName,
                                                allowedThen |-> allowedNow]}
                                      ELSE run[r].reads,
                            !.rawResults = IF usable
                                           THEN Append(run[r].rawResults,
                                                       [query |-> cq, rows |-> out.rows])
                                           ELSE run[r].rawResults,
                            !.scannedTables = IF usable
                                              THEN run[r].scannedTables \cup {cq.tableName}
                                              ELSE run[r].scannedTables]
          IN  /\ out.present => ExecutorAdmits(cq, allowedNow, masked)
              /\ run' = [run EXCEPT ![r] =
                            IF out.threw THEN ScanCatch(r, "query")
                            ELSE IF looped.next > Len(run[r].comparisonQueries)
                            THEN AfterQueries(looped)
                            ELSE looped]
    /\ UNCHANGED <<scans, alerts, llmEnabled>>

\* 5. await executeGuardedQuery(dataSourceId, cq.sql) inside its own try.
\* The executor reads the table permissions as they are at that moment and
\* hands back a result only for a text validateQuery lets through; failures
\* counts the calls that threw or came back without a result, reads keeps
\* the table of each query the remote database ran with those permissions
ExecuteQuery(r) ==
    /\ run[r].pc = "executeQuery"
    /\ \E out \in GuardedOutcomes, allowedNow \in ScanAllowedTableLists,
          masked \in MaskedColumnMaps :
          LET cq     == run[r].comparisonQueries[run[r].next]
              usable == ~out.threw /\ out.present /\ Len(out.rows) > 0
              looped == [run[r] EXCEPT
                            !.next = run[r].next + 1,
                            !.failures = IF out.threw \/ ~out.present
                                         THEN run[r].failures + 1 ELSE run[r].failures,
                            !.reads = IF out.present
                                      THEN run[r].reads \cup
                                              {[table |-> cq.tableName,
                                                allowedThen |-> allowedNow]}
                                      ELSE run[r].reads,
                            !.rawResults = IF usable
                                           THEN Append(run[r].rawResults,
                                                       [query |-> cq, rows |-> out.rows])
                                           ELSE run[r].rawResults,
                            !.scannedTables = IF usable
                                              THEN run[r].scannedTables \cup {cq.tableName}
                                              ELSE run[r].scannedTables]
          IN  /\ out.present => ExecutorAdmits(cq, allowedNow, masked)
              /\ run' = [run EXCEPT ![r] =
                            IF looped.next > Len(run[r].comparisonQueries)
                            THEN AfterQueries(looped)
                            ELSE looped]
    /\ UNCHANGED <<scans, alerts, llmEnabled>>

\* 7. await generateText(...): the rewrite is applied, or the response has
\* no JSON array or one JSON.parse rejects, or the call throws and the catch
\* swallows it; the entries of a parsed array are applied in place, one
\* after the other, whatever fields they have
LlmEnhance(r) ==
    /\ run[r].pc = "llmEnhance"
    /\ \E answer \in RewriteAnswers :
          run' = [run EXCEPT ![r] =
                     [run[r] EXCEPT
                         !.pc = "persistAlerts",
                         !.rewrite = answer,
                         !.anomalies = IF answer = "rewritten"
                                       THEN Enhanced(run[r].anomalies)
                                       ELSE IF answer = "lacks fields"
                                       THEN LacksFields(run[r].anomalies)
                                       ELSE IF answer = "malformed entry"
                                       THEN PartlyEnhanced(run[r].anomalies)
                                       ELSE run[r].anomalies]]
    /\ UNCHANGED <<scans, alerts, llmEnabled>>

\* 8. persistAlerts: await query(INSERT INTO anomaly_alerts ...) for the next
\* alert; metric_name and description are NOT NULL, and undefined is sent as NULL
PersistAlert(r) ==
    /\ run[r].pc = "persistAlerts"
    /\ \E ok \in BOOLEAN :
          IF ok /\ run[r].anomalies[run[r].persisted + 1].wording # "missing"
          THEN LET a == run[r].anomalies[run[r].persisted + 1]
               IN  /\ alerts' = Append(alerts,
                                    [scanId |-> run[r].scanId,
                                     dataSourceId |-> run[r].dataSourceId, alert |-> a])
                   /\ run' = [run EXCEPT ![r] =
                                 [run[r] EXCEPT
                                     !.persisted = run[r].persisted + 1,
                                     !.pc = IF run[r].persisted + 1 = Len(run[r].anomalies)
                                            THEN "complete" ELSE "persistAlerts"]]
          ELSE /\ alerts' = alerts
               /\ run' = [run EXCEPT ![r] = ScanCatch(r, "metadata store")]
    /\ UNCHANGED <<scans, llmEnabled>>

\* the update is applied, yet the awaited call rejects and catch takes over
Complete_AppliedThenCaught(r) ==
    /\ run[r].pc = "complete"
    /\ scans' = updateScanStatus(run[r].scanId, "completed",
                    [NoExtra EXCEPT
                        !.tablesScanned = Cardinality(run[r].scannedTables),
                        !.queriesRun = Len(run[r].comparisonQueries),
                        !.alertsFound = Len(run[r].anomalies)])
    /\ run' = [run EXCEPT ![r] = ScanCatch(r, "metadata store")]
    /\ UNCHANGED <<alerts, llmEnabled>>

\* queriesRun is taken from the results, not from the queries
Complete_CountsResults(r) ==
    /\ run[r].pc = "complete"
    /\ \E ok \in BOOLEAN :
          IF ok
          THEN /\ scans' = updateScanStatus(run[r].scanId, "completed",
                                [NoExtra EXCEPT
                                    !.tablesScanned = Cardinality(run[r].scannedTables),
                                    !.queriesRun = Len(run[r].rawResults),
                                    !.alertsFound = Len(run[r].anomalies)])
               /\ run' = [run EXCEPT ![r] = ScanReturn(r, run[r].anomalies)]
          ELSE /\ scans' = scans
               /\ run' = [run EXCEPT ![r] = ScanCatch(r, "metadata store")]
    /\ UNCHANGED <<alerts, llmEnabled>>

\* 9. await updateScanStatus(scanId, "completed", counters); return the alerts
Complete(r) ==
    /\ run[r].pc = "complete"
    /\ \E ok \in BOOLEAN :
          IF ok
          THEN /\ scans' = updateScanStatus(run[r].scanId, "completed",
                                [NoExtra EXCEPT
                                    !.tablesScanned = Cardinality(run[r].scannedTables),
                                    !.queriesRun = Len(run[r].comparisonQueries),
                                    !.alertsFound = Len(run[r].anomalies)])
               /\ run' = [run EXCEPT ![r] = ScanReturn(r, run[r].anomalies)]
          ELSE /\ scans' = scans
               /\ run' = [run EXCEPT ![r] = ScanCatch(r, "metadata store")]
    /\ UNCHANGED <<alerts, llmEnabled>>

\* catch marks the scan completed
Catch_MarksCompleted(r) ==
    /\ run[r].pc = "catch"
    /\ scans' = updateScanStatus(run[r].scanId, "completed", NoExtra)
    /\ run' = [run EXCEPT ![r] = ScanReturn(r, <<>>)]
    /\ UNCHANGED <<alerts, llmEnabled>>

\* catch (err): await updateScanStatus(scanId, "failed", {errorMessage});
\* return no alerts.  Nothing catches a failure of this update.
Catch(r) ==
    /\ run[r].pc = "catch"
    /\ \E ok \in BOOLEAN :
          IF ok
          THEN /\ scans' = updateScanStatus(run[r].scanId, "failed",
                                [NoExtra EXCEPT !.errorMessage = run[r].errorMessage])
               /\ run' = [run EXCEPT ![r] = ScanReturn(r, <<>>)]
          ELSE /\ scans' = scans
               /\ run' = [run EXCEPT ![r] = ScanThrow(r, "metadata store")]
    /\ UNCHANGED <<alerts, llmEnabled>>

\* the caller has taken the outcome
TakeResult(r) ==
    /\ run[r].pc = "done"
    /\ run' = [run EXCEPT ![r] = IdleRun]
    /\ UNCHANGED <<scans, alerts, llmEnabled>>

ScanInit ==
    /\ GuardAtRest
    /\ ExecAtRest
    /\ scans = <<>>
    /\ alerts = <<>>
    /\ llmEnabled \in BOOLEAN
    /\ run = [r \in RunIds |-> IdleRun]

ScanNext ==
    \/ \E r \in RunIds, ds \in ScanDataSourceIds :
          BeginScan(r, ds) /\ UNCHANGED <<guardVars, execVars>>
    \/ \E r \in RunIds : CreateScan(r) /\ UNCHANGED <<guardVars, execVars>>
    \/ \E r \in RunIds : UpdateRunning(r) /\ UNCHANGED <<guardVars, execVars>>
    \/ \E r \in RunIds : GetCachedSchema(r) /\ UNCHANGED <<guardVars, execVars>>
    \/ \E r \in RunIds : FailNoSchema(r) /\ UNCHANGED <<guardVars, execVars>>
    \/ \E r \in RunIds : GetAllowedTablesForScan(r) /\ UNCHANGED <<guardVars, execVars>>
    \/ \E r \in RunIds : FailNoTables(r) /\ UNCHANGED <<guardVars, execVars>>
    \/ \E r \in RunIds : CompleteEmpty(r) /\ UNCHANGED <<guardVars, execVars>>
    \/ \E r \in RunIds : ExecuteQuery(r) /\ UNCHANGED <<guardVars, execVars>>
    \/ \E r \in RunIds : LlmEnhance(r) /\ UNCHANGED <<guardVars, execVars>>
    \/ \E r \in RunIds : PersistAlert(r) /\ UNCHANGED <<guardVars, execVars>>
    \/ \E r \in RunIds : Complete(r) /\ UNCHANGED <<guardVars, execVars>>
    \/ \E r \in RunIds : Catch(r) /\ UNCHANGED <<guardVars, execVars>>
    \/ \E r \in RunIds : TakeResult(r) /\ UNCHANGED <<guardVars, execVars>>

SpecScan == ScanInit /\ [][ScanNext]_vars

\* every step of the event loop that can be taken is taken in the end
FairSpecScan == SpecScan /\ WF_vars(ScanNext)

\* ------------------------------------------------------------------------
\* generateComparisonQueries on its own: candidates of schemas of several
\* tables, then the synthesis
\* ------------------------------------------------------------------------

\* tables in one cached schema
MaxTables == 3

T_sales  == <<"s","a","l","e","s">>
T_stock  == <<"s","t","o","c","k">>
T_ledger == <<"l","e","d","g","e","r">>

\* four numeric columns that are no key: three of them become candidates
TableSales ==
    [name |-> T_sales, rowCount |-> 90000,
     columns |-> << Column(C_id, <<"b","i","g","i","n","t">>, TRUE),
                    Column(<<"n","e","t">>, <<"m","o","n","e","y">>, FALSE),
                    Column(<<"t","a","x">>, <<"R","E","A","L">>, FALSE),
                    Column(<<"f","e","e">>, TY_Numeric, FALSE),
                    Column(<<"t","i","p">>, TY_integer, FALSE),
                    Column(<<"s","o","l","d","_","o","n">>, TY_date, FALSE) >>]

TableStock ==
    [name |-> T_stock, rowCount |-> MAX_ROW_ESTIMATE_FOR_SCAN,
     columns |-> << Column(<<"s","e","e","n">>, TY_timestamptz, FALSE),
                    Column(<<"o","n","_","h","a","n","d">>, TY_integer, FALSE),
                    Column(<<"o","r","d","e","r","e","d">>, <<"s","m","a","l","l","i","n","t">>, FALSE),
                    Column(<<"l","o","s","t">>, <<"d","e","c","i","m","a","l">>, FALSE) >>]

TableLedger ==
    [name |-> T_ledger, rowCount |-> 7,
     columns |-> << Column(<<"d","e","b","i","t">>, TY_Numeric, FALSE),
                    Column(<<"c","r","e","d","i","t">>, TY_Numeric, FALSE),
                    Column(<<"n","o","t","e">>, TY_text, FALSE),
                    Column(<<"p","o","s","t","e","d">>, TY_date, FALSE) >>]

WideTables == {TableSales, TableStock, TableLedger, TableOrders, TableUsers}

\* schemas of up to n tables, no table twice
RECURSIVE SchemasOf(_)
SchemasOf(n) ==
    IF n = 0 THEN {<<>>}
    ELSE LET shorter == SchemasOf(n - 1)
         IN  shorter \cup {Append(s, t) : s \in shorter, t \in WideTables}

WideSchemas ==
    {[tables |-> s] : s \in {s \in SchemasOf(MaxTables) :
                                \A i, j \in DOMAIN s : i # j => s[i] # s[j]}}

\* getAllowedTables: every table, or every table but sales
WideAllowedLists ==
    { <<T_users, T_orders, T_ledger, T_stock, T_sales>>,
      <<T_users, T_orders, T_ledger, T_stock>> }

GenerateInit ==
    /\ GuardAtRest
    /\ ExecAtRest
    /\ scans = <<>>
    /\ alerts = <<>>
    /\ llmEnabled = FALSE
    /\ \E schema \in WideSchemas, allowed \in WideAllowedLists :
          run = [r \in RunIds |->
                    [IdleRun EXCEPT !.pc = "generate", !.schema = schema,
                                    !.candidates = findMetricCandidates(schema, allowed)]]

\* const comparisonQueries = generateComparisonQueries(candidates)
Generate(r) ==
    /\ run[r].pc = "generate"
    /\ run' = [run EXCEPT ![r] =
                  [run[r] EXCEPT !.pc = "generated",
                                 !.comparisonQueries =
                                     generateComparisonQueries(run[r].candidates)]]
    /\ UNCHANGED <<scans, alerts, llmEnabled>>

GenerateNext == \E r \in RunIds : Generate(r) /\ UNCHANGED <<guardVars, execVars>>

SpecGenerate == GenerateInit /\ [][GenerateNext]_vars

\* ------------------------------------------------------------------------
\* heuristicDetect on its own: results of every kind, then the detection
\* ------------------------------------------------------------------------

\* totals a period may have; the pairs they form lie on, next to and far from
\* the thresholds, on the side of the gains and of the losses
Totals ==
    { 0 - 150, 0 - 100, 0, 50, 70, 80, 100, 120, 130, 150, 500, 501, 700, 701, 800, 801,
      1000, 1199, 1200, 1299, 1300, 1499, 1500, 2001, 2401, 2601, 3001 }

\* result.rows of a comparison query: a row per period, or one row only
DetectRows ==
    { << [total |-> c, row_count |-> 1], [total |-> p, row_count |-> 1] >> :
          c \in Totals, p \in Totals }
    \cup { << [total |-> 100, row_count |-> 1] >> }

\* the two queries of the scan of Orders
DetectQueries ==
    generateComparisonQueries(
        findMetricCandidates([tables |-> <<TableOrders>>], <<T_orders>>))

\* rawResults: one result, or two of which the second has totals 150 and 100
DetectInputs ==
    LET second(i) == [query |-> DetectQueries[3 - i],
                      rows |-> << [total |-> 150, row_count |-> 3],
                                  [total |-> 100, row_count |-> 2] >>]
    IN  { <<[query |-> DetectQueries[i], rows |-> rows]>> :
              i \in DOMAIN DetectQueries, rows \in DetectRows }
        \cup { <<[query |-> DetectQueries[i], rows |-> rows], second(i)>> :
              i \in DOMAIN DetectQueries, rows \in DetectRows }

DetectInit ==
    /\ GuardAtRest
    /\ ExecAtRest
    /\ scans = <<>>
    /\ alerts = <<>>
    /\ llmEnabled = FALSE
    /\ \E results \in DetectInputs :
          run = [r \in RunIds |-> [IdleRun EXCEPT !.pc = "detect", !.rawResults = results]]

\* let anomalies = heuristicDetect(rawResults)
Detect(r) ==
    /\ run[r].pc = "detect"
    /\ run' = [run EXCEPT ![r] =
                  [run[r] EXCEPT !.pc = "detected",
                                 !.anomalies = heuristicDetect(run[r].rawResults)]]
    /\ UNCHANGED <<scans, alerts, llmEnabled>>

DetectNext == \E r \in RunIds : Detect(r) /\ UNCHANGED <<guardVars, execVars>>

SpecDetect == DetectInit /\ [][DetectNext]_vars

\* ------------------------------------------------------------------------
\* What the claims speak of, said without the validator's own operators
\* ------------------------------------------------------------------------

EqualIgnoringCase(a, b) ==
    /\ Len(a) = Len(b)
    /\ \A i \in 1..Len(a) : UpperOfChar[a[i]] = UpperOfChar[b[i]]

\* the word stands in the text as a whole word
OccursAsWholeWord(word, text) ==
    \E i \in DOMAIN text : IsWord(text[i]) /\ EqualIgnoringCase(text[i].s, word)

\* the word stands in the text only inside a longer word
OccursOnlyEmbedded(word, text) ==
    /\ ~OccursAsWholeWord(word, text)
    /\ \E i \in DOMAIN text :
          /\ IsWord(text[i])
          /\ \E j \in 1..(Len(text[i].s) - Len(word) + 1) :
                EqualIgnoringCase(SubSeq(text[i].s, j, j + Len(word) - 1), word)

\* the text, leading white space aside, begins with SELECT in any case
TextBeginsWithSelect(text) ==
    LET solid == {i \in DOMAIN text : ~IsSpace(text[i])}
    IN  /\ solid # {}
        /\ LET f == CHOOSE i \in solid : \A j \in solid : i <= j
           IN  /\ IsWord(text[f])
               /\ Len(text[f].s) >= 6
               /\ EqualIgnoringCase(SubSeq(text[f].s, 1, 6), STR_SELECT)

\* the length and statement-shape checks let the text through
ChecksRun(text) ==
    StringLength(text) <= MAX_QUERY_LENGTH /\ TextBeginsWithSelect(text)

Occurrences(seq, x) == Cardinality({i \in DOMAIN seq : seq[i] = x})

\* non-empty statements of a text, read as a SQL lexer reads it: a quote
\* opens a literal that only the same quote closes, a ; separates
\* statements only outside every literal, and a statement is non-empty
\* when it holds something other than white space and quoted literals
RECURSIVE StatementsFrom(_, _, _, _)
StatementsFrom(text, i, quote, nonEmpty) ==
    IF i > Len(text) THEN (IF nonEmpty THEN 1 ELSE 0)
    ELSE LET x == text[i]
         IN  IF quote = "" /\ IsSym(x, ";")
             THEN (IF nonEmpty THEN 1 ELSE 0) + StatementsFrom(text, i + 1, "", FALSE)
             ELSE IF quote = "" /\ (IsSym(x, "'") \/ IsSym(x, "\""))
             THEN StatementsFrom(text, i + 1, x.s[1], nonEmpty)
             ELSE IF quote # "" /\ IsSym(x, quote)
             THEN StatementsFrom(text, i + 1, "", nonEmpty)
             ELSE StatementsFrom(text, i + 1, quote,
                                 nonEmpty \/ (quote = "" /\ ~IsSpace(x)))

StatementCount(text) == StatementsFrom(text, 1, "", FALSE)

\* tables a text reads: the (possibly schema-qualified) names that follow
\* FROM or JOIN, and those that follow a comma of the same FROM list
RECURSIVE TablesReadFrom(_, _, _)
TablesReadFrom(text, i, mode) ==
    IF i > Len(text) THEN {}
    ELSE LET x == text[i]
             isKeyword == IsWord(x) /\ (EqualIgnoringCase(x.s, STR_FROM)
                                        \/ EqualIgnoringCase(x.s, STR_JOIN))
             qualified == /\ i + 2 <= Len(text)
                          /\ IsSym(text[i + 1], ".")
                          /\ IsWord(text[i + 2])
         IN  IF IsSpace(x) THEN TablesReadFrom(text, i + 1, mode)
             ELSE IF isKeyword THEN TablesReadFrom(text, i + 1, "expect")
             ELSE IF IsWord(x) /\ mode = "expect"
             THEN IF qualified
                  THEN {toLowerCase(text[i + 2].s)} \cup TablesReadFrom(text, i + 3, "listed")
                  ELSE {toLowerCase(x.s)} \cup TablesReadFrom(text, i + 1, "listed")
             ELSE IF IsWord(x) /\ mode = "listed"
             THEN TablesReadFrom(text, i + 1, "listed")
             ELSE IF IsSym(x, ",") /\ mode = "listed"
             THEN TablesReadFrom(text, i + 1, "expect")
             ELSE TablesReadFrom(text, i + 1, "")

TablesRead(text) == TablesReadFrom(text, 1, "")

AuthorizedNames(tables) == {toLowerCase(tables[i]) : i \in DOMAIN tables}

DeniedTablesReported(v) ==
    {v.errors[i].a : i \in {j \in DOMAIN v.errors : v.errors[j].text = "Access denied to table"}}

MaskedPairs(masked) ==
    UNION {{<<masked[i].table, masked[i].columns[j]>> : j \in DOMAIN masked[i].columns} :
        i \in DOMAIN masked}

\* ------------------------------------------------------------------------
\* Claims about the validator (checked under SpecValidate)
\* ------------------------------------------------------------------------

\* C2 (as claimed): a text that passes the length and SELECT checks gets
\* exactly one "Access denied to table" error for each distinct table it
\* reads that is not authorized, and none when every table it reads is
\* authorized.
C2_DeniedExactlyUnauthorized ==
    (phase = "validated" /\ ChecksRun(sql)) =>
        /\ DeniedTablesReported(validation) = TablesRead(sql) \ AuthorizedNames(allowedTables)
        /\ \A t \in DeniedTablesReported(validation) :
              Occurrences(validation.errors, ErrDenied(t)) = 1

C5_KeywordsWhenSelect ==
    (phase = "validated" /\ TextBeginsWithSelect(sql)) =>
        \A n \in DOMAIN FORBIDDEN_KEYWORDS :
            Occurrences(validation.errors, ErrForbidden(FORBIDDEN_KEYWORDS[n]))
                = IF OccursAsWholeWord(FORBIDDEN_KEYWORDS[n], sql) THEN 1 ELSE 0

\* C5 (amended): the same, for texts of at most MAX_QUERY_LENGTH characters.
C5_KeywordsWhenChecksRun ==
    (phase = "validated" /\ ChecksRun(sql)) =>
        \A n \in DOMAIN FORBIDDEN_KEYWORDS :
            Occurrences(validation.errors, ErrForbidden(FORBIDDEN_KEYWORDS[n]))
                = IF OccursAsWholeWord(FORBIDDEN_KEYWORDS[n], sql) THEN 1 ELSE 0

\* C5 witness: two keywords are reported together while a third word that
\* only embeds a keyword is not.
C5_Witness ==
    /\ phase = "validated"
    /\ ChecksRun(sql)
    /\ OccursOnlyEmbedded(<<"R","E","S","E","T">>, sql)
    /\ OccursAsWholeWord(<<"D","R","O","P">>, sql)
    /\ Occurrences(validation.errors, ErrForbidden(<<"D","R","O","P">>)) = 1
    /\ Occurrences(validation.errors, ErrForbidden(<<"R","E","S","E","T">>)) = 0

\* C6 (as claimed): a text that passes the length and SELECT checks gets
\* the multiple-statements error exactly when it holds more than one
\* non-empty statement separated by a ; outside quoted literals.
C6_MultipleExactlyOutsideQuotes ==
    (phase = "validated" /\ ChecksRun(sql)) =>
        ((Occurrences(validation.errors, ErrMultiple) = 1) <=> (StatementCount(sql) > 1))

\* C7: a text of at most MAX_QUERY_LENGTH characters that does not begin
\* with SELECT is invalid with the one SELECT-only error and no warning.
C7_NonSelectOneError ==
    (phase = "validated" /\ StringLength(sql) <= MAX_QUERY_LENGTH /\ ~TextBeginsWithSelect(sql)) =>
        /\ ~validation.valid
        /\ validation.errors = <<ErrSelectOnly>>
        /\ validation.warnings = <<>>

\* C7 witness: a non-SELECT text that names a forbidden keyword, reads an
\* unauthorized table and has no LIMIT still gets the one error.
C7_Witness ==
    /\ phase = "validated"
    /\ ~TextBeginsWithSelect(sql)
    /\ OccursAsWholeWord(<<"D","R","O","P">>, sql)
    /\ toLowerCase(T_secret) \in TablesRead(sql)
    /\ validation.errors = <<ErrSelectOnly>>

\* ------------------------------------------------------------------------
\* Claims about the executor (checked under Spec)
\* ------------------------------------------------------------------------

\* the call's data source exists, has authorized tables, and the submitted
\* text passed validateQuery
MayExecute(k) ==
    /\ k.dataSourceId \in DataSourceRows
    /\ k.allowedTables # <<>>
    /\ k.validation.valid
    /\ k.validation = validateQuery(k.sql, k.allowedTables, k.maskedColumns, DEFAULT_ROW_LIMIT)

\* C1: a step of a call changes the pool registry, creates a pool, hands
\* the call a pool or sends a statement only if the call's data source
\* exists, its authorized-table set is non-empty and validateQuery found
\* the submitted text valid; every other step of a call leaves the
\* registry as it was and sends nothing.
C1_PoolOnlyAfterValidation ==
    [][\A c \in CallerIds :
          (call'[c] # call[c] /\ call'[c].pc # "idle") =>
              ((\/ poolCache' # poolCache
                \/ poolCount' # poolCount
                \/ call'[c].pool # call[c].pool
                \/ call'[c].sent # call[c].sent) => MayExecute(call'[c]))]_vars

\* C1 witness: a call was rejected by the validator and holds no pool,
\* while the registry holds a pool on which another call has sent.
C1_Witness ==
    \E c, d \in CallerIds :
        /\ call[c].pc = "done"
        /\ call[c].outcome = "returned"
        /\ call[c].validation.errors # <<>>
        /\ ~call[c].returned.validation.valid
        /\ call[c].pool = 0
        /\ call[c].sent = <<>>
        /\ call[d].sent # <<>>
        /\ poolCache[call[d].dataSourceId].pool = call[d].pool
        /\ call[d].pool # 0

MaskedPairsOf(ds) ==
    IF ds \in DataSourceRows THEN MaskedPairs(tablePermissions[ds].masked) ELSE {}

\* C3 (as claimed): no result handed back to a caller holds a column that
\* is masked for its table.
C3_NoMaskedColumnReturned ==
    \A c \in CallerIds :
        (call[c].outcome = "returned" /\ call[c].returned.result.present) =>
            call[c].returned.result.columns \cap MaskedPairsOf(call[c].dataSourceId) = {}

\* the portion of the log that was there before a step is still there
AuditLogOnlyGrows ==
    /\ Len(auditLog') >= Len(auditLog)
    /\ SubSeq(auditLog', 1, Len(auditLog)) = auditLog

\* rows a step appended are counted on the call that wrote them
AuditRowsCounted ==
    LET wrote == {c \in CallerIds :
                     call'[c].pc # "idle" /\ call'[c].logged # call[c].logged}
    IN  /\ \A c \in wrote : call'[c].logged = call[c].logged + 1
        /\ Len(auditLog') = Len(auditLog) + Cardinality(wrote)

C9_ResultIffExecuted ==
    \A c \in CallerIds :
        (call[c].pc = "done" /\ call[c].pool # 0 /\ call[c].outcome = "returned") =>
            IF call[c].executed
            THEN /\ call[c].returned.result.present
                 /\ call[c].returned.validation.valid
                 /\ call[c].audit = "success"
            ELSE /\ ~call[c].returned.result.present
                 /\ ~call[c].returned.validation.valid
                 /\ call[c].returned.validation.errors # <<>>
                 /\ call[c].audit = "error"

\* C10 (as claimed, for the failures it lists): no call ends by throwing on
\* an unknown data source, a rejected text, a credential or pool failure, a
\* failed client acquisition or a failed statement.
C10_NeverThrows ==
    \A c \in CallerIds :
        (call[c].pc = "done" /\ call[c].outcome = "thrown") =>
            call[c].errorMessage = "metadata store"

\* ------------------------------------------------------------------------
\* Claims about enforceLimit (checked under SpecLimit)
\* ------------------------------------------------------------------------

\* the text holds LIMIT as a word of its own
HasLimitClause(text) == OccursAsWholeWord(STR_LIMIT, text)

\* the text up to a closing ; that only white space follows
WithoutTerminator(text) ==
    LET solid == {i \in DOMAIN text : ~IsSpace(text[i])}
    IN  IF solid = {} THEN text
        ELSE LET last == CHOOSE i \in solid : \A j \in solid : j <= i
             IN  IF IsSym(text[last], ";") THEN SubSeq(text, 1, last - 1) ELSE text

\* the text followed by " LIMIT n"
WithLimit(text, n) ==
    Concat(text, <<Space(1), Word(STR_LIMIT), Space(1), Word(NumberToString(n))>>)

\* C12 (as claimed): the text enforceLimit returns for a validated text
\* carries a LIMIT clause: a text without a LIMIT clause comes back with
\* its trailing ; removed and " LIMIT <maxRows>" appended, and only a text
\* that already has a LIMIT clause comes back unchanged.
C12_EveryStatementLimited ==
    (phase # "input" /\ validateQuery(sql, allowedTables, maskedColumns, maxRows).valid) =>
        /\ HasLimitClause(limited[1])
        /\ limited[1] = IF HasLimitClause(sql) THEN sql
                        ELSE WithLimit(WithoutTerminator(sql), maxRows)

\* C13: enforceLimit applied to its own result returns that result.
C13_EnforceLimitIdempotent ==
    phase = "relimited" => limited[2] = limited[1]

\* C13 witness: a text ending in ; without LIMIT was rewritten by the
\* first application and left alone by the second.
C13_Witness ==
    /\ phase = "relimited"
    /\ ~IncludesLimit(sql)
    /\ IsSym(sql[Len(sql)], ";")
    /\ limited[1] # sql
    /\ limited[2] = limited[1]
    /\ maxRows = 50

\* ------------------------------------------------------------------------
\* Claims about execution and the pool registry (checked under Spec)
\* ------------------------------------------------------------------------

\* the call holds a pool it fetched from the registry
HoldsPool(c) == call[c].pool # 0

\* the step hands call c its pool
ObtainsPool(c) == call[c].pool = 0 /\ call'[c].pool # 0

\* C11: what a call sends is first the statement-timeout SET and then, only
\* after that SET succeeded, enforceLimit of the text that passed
\* validation; both go out on the client the call acquired, and the client
\* is released on every way out.
C11_TimeoutThenStatement ==
    /\ [](\A c \in CallerIds :
            /\ Len(call[c].sent) <= 2
            /\ call[c].sent # <<>> =>
                  /\ call[c].sent[1] = SetStatementTimeout
                  /\ call[c].validation.valid
                  /\ call[c].client # "none"
            /\ Len(call[c].sent) = 2 =>
                  /\ call[c].sent[2] = enforceLimit(call[c].sql, DEFAULT_ROW_LIMIT)
                  /\ call[c].errorMessage # "set timeout"
            /\ call[c].errorMessage = "set timeout" => call[c].sent = <<SetStatementTimeout>>
            /\ call[c].pc \in {"logError", "done"} => call[c].client # "held")
    /\ [][\A c \in CallerIds :
            /\ (call'[c].sent # call[c].sent /\ call'[c].pc # "idle") =>
                  call[c].client = "held"
            /\ (call[c].client = "held" /\ call'[c].client # "held") =>
                  call'[c].client = "released"
            /\ (call[c].client = "released" /\ call'[c].pc # "idle") =>
                  call'[c].client = "released"]_vars

\* C11 witness: one call sent the SET and then its text with the limit
\* appended and released its client; another call's SET failed, nothing
\* more was sent and its client was released.
C11_Witness ==
    \E c, d \in CallerIds :
        /\ call[c].pc = "done"
        /\ call[c].sent = <<SetStatementTimeout, call[c].safeSql>>
        /\ call[c].safeSql # call[c].sql
        /\ call[c].client = "released"
        /\ call[d].errorMessage = "set timeout"
        /\ call[d].pc = "done"
        /\ call[d].sent = <<SetStatementTimeout>>
        /\ call[d].client = "released"

\* pools created and not ended
LivePools == (1..poolCount) \ endedPools

\* ids with an entry in the registry
PooledIds == {ds \in DataSourceIds : poolCache[ds] # NoPool}

\* C14: every pool that was created and not ended is the registry's entry
\* of exactly one id, so an id never has two pools; calls against one id
\* whose pools are both still open hold the same pool, at most one of them
\* created it, and a call decrypted the credential only if it created it.
C14_OnePoolPerId ==
    /\ LivePools = {poolCache[ds].pool : ds \in PooledIds}
    /\ \A a, b \in PooledIds : a # b => poolCache[a].pool # poolCache[b].pool
    /\ \A c, d \in CallerIds :
          (/\ c # d
           /\ HoldsPool(c) /\ HoldsPool(d)
           /\ call[c].dataSourceId = call[d].dataSourceId
           /\ call[c].pool \in LivePools /\ call[d].pool \in LivePools) =>
              /\ call[c].pool = call[d].pool
              /\ ~(call[c].created /\ call[d].created)
    /\ \A c \in CallerIds :
          HoldsPool(c) => call[c].decrypted = (IF call[c].created THEN 1 ELSE 0)

\* C14 witness: two calls against one id are under way together, the
\* first created the pool and the second was handed that same pool.
C14_Witness ==
    \E c, d \in CallerIds :
        /\ c # d
        /\ call[c].dataSourceId = call[d].dataSourceId
        /\ call[c].pc \in {"connect", "setTimeout", "query"}
        /\ call[d].pc \in {"connect", "setTimeout", "query"}
        /\ call[c].created /\ call[c].decrypted = 1
        /\ ~call[d].created /\ call[d].decrypted = 0
        /\ call[c].pool = call[d].pool
        /\ poolCount = 1

\* C15: two calls against one id, the second fetching its pool no more
\* than the TTL after the first, hold the same pool, and a fetch sets the
\* entry's lastUsed to the time of the fetch.
C15_ReuseWithinTtl ==
    /\ [](\A c, d \in CallerIds :
            (/\ HoldsPool(c) /\ HoldsPool(d)
             /\ call[c].dataSourceId = call[d].dataSourceId
             /\ call[c].obtainedAt <= call[d].obtainedAt
             /\ call[d].obtainedAt - call[c].obtainedAt <= POOL_TTL_MS) =>
                call[c].pool = call[d].pool)
    /\ [][\A c \in CallerIds :
            ObtainsPool(c) =>
                poolCache'[call'[c].dataSourceId] =
                    [pool |-> call'[c].pool, lastUsed |-> now]]_vars

\* C15 witness: the second call fetched the pool a full TTL after the
\* first, five sweeps having run in between, and holds the same pool.
C15_Witness ==
    \E c, d \in CallerIds :
        /\ HoldsPool(c) /\ HoldsPool(d)
        /\ call[c].dataSourceId = call[d].dataSourceId
        /\ call[c].created
        /\ call[d].obtainedAt - call[c].obtainedAt = POOL_TTL_MS
        /\ call[c].pool = call[d].pool
        /\ ~sweepDue
        /\ poolCache[call[d].dataSourceId].lastUsed = call[d].obtainedAt

\* C16 (as claimed): a call that fetches its pool when the entry of its id
\* has been idle for more than the TTL is handed a newly created pool and
\* not the cached one.
C16_NewPoolAfterTtl ==
    [][\A c \in CallerIds :
          LET ds == call'[c].dataSourceId
          IN  (/\ ObtainsPool(c)
               /\ poolCache[ds] # NoPool
               /\ now - poolCache[ds].lastUsed > POOL_TTL_MS) =>
                  /\ call'[c].created
                  /\ call'[c].pool # poolCache[ds].pool]_vars

IsTerminal(scan) == scan.status \in TerminalStatuses

\* the step changes the status of scan s from one value to the other
StatusStep(s, from, to) == scans[s].status = from /\ scans'[s].status = to

\* C18: a scan that is completed or failed is never written again, so its
\* terminal write is its last write and the one that set completed_at;
\* a scan that is not terminal has no completed_at; and a run that returns
\* leaves its scan terminal.
C18_OneTerminalTransition ==
    /\ [][\A s \in DOMAIN scans : IsTerminal(scans[s]) => scans'[s] = scans[s]]_vars
    /\ [](\A s \in DOMAIN scans :
            IF IsTerminal(scans[s])
            THEN scans[s].completedAt = scans[s].writes
            ELSE scans[s].completedAt = Null)
    /\ [](\A r \in RunIds :
            (run[r].pc = "done" /\ run[r].outcome = "returned") =>
                IsTerminal(scans[run[r].scanId]))

\* C18 witness: the update to completed failed after the alerts were
\* persisted, catch recorded the failure, and that is the scan's one
\* terminal write.
C18_Witness ==
    \E r \in RunIds :
        /\ run[r].pc = "done"
        /\ run[r].outcome = "returned"
        /\ run[r].anomalies # <<>>
        /\ run[r].persisted = Len(run[r].anomalies)
        /\ scans[run[r].scanId].status = "failed"
        /\ scans[run[r].scanId].errorMessage = "metadata store"
        /\ scans[run[r].scanId].writes = 2
        /\ scans[run[r].scanId].completedAt = 2

C20_ScanTerminates ==
    /\ \A s \in 1..MaxScans :
          [](s \in DOMAIN scans => <>(s \in DOMAIN scans /\ IsTerminal(scans[s])))
    /\ \A r \in RunIds :
          [](run[r].scanId # 0 =>
                <>(/\ run[r].pc = "done"
                   /\ run[r].outcome = "returned"
                   /\ run[r].returned.scanId # 0))


\* ------------------------------------------------------------------------
\* the scan's pipeline
\* ------------------------------------------------------------------------

\* the stretches of runAnomalyScan that follow the loop over the queries
AfterLoop == {"llmEnhance", "persistAlerts", "complete"}

\* C21: a comparison query whose call to the executor throws or comes back
\* without a result adds nothing to the results, the loop goes on to the next
\* query until every synthesized query has been run, and no step of the loop
\* touches the scan record or reaches the catch block
C21_QueryFailuresIsolated ==
    [][\A r \in RunIds :
          run[r].pc = "executeQuery" =>
             /\ scans' = scans
             /\ run'[r].pc \in {"executeQuery"} \cup AfterLoop
             /\ run'[r].next = run[r].next + 1
             /\ run'[r].failures > run[r].failures =>
                    run'[r].rawResults = run[r].rawResults
             /\ run'[r].pc = "executeQuery" =>
                    run'[r].next <= Len(run[r].comparisonQueries)
             /\ run'[r].pc \in AfterLoop =>
                    run'[r].next = Len(run[r].comparisonQueries) + 1]_vars

\* C21 witness: a scan every query of which failed is completed
C21_Witness ==
    \E r \in RunIds :
        /\ run[r].pc = "done"
        /\ run[r].outcome = "returned"
        /\ run[r].comparisonQueries # <<>>
        /\ run[r].failures = Len(run[r].comparisonQueries)
        /\ scans[run[r].scanId].status = "completed"


\* the ways the rewrite step can fail once it has called the model
FailedRewrites == {"no json", "threw", "unparsable", "lacks fields", "malformed entry"}

\* the rewrite step was disabled or has failed
RewriteFailed(k) ==
    \/ k.rewrite \in FailedRewrites
    \/ k.rewrite = "none" /\ k.pc \in {"persistAlerts", "complete", "done"}

\* the alert rows stored for a scan, in the order of their insertion
AlertsOfScan(s) ==
    LET rows == SelectSeq(alerts, LAMBDA row : row.scanId = s)
    IN  [i \in DOMAIN rows |-> rows[i].alert]

\* C22: when the rewrite step is disabled or fails (the call throws, the
\* response has no JSON array, the array cannot be parsed, or its entries are
\* malformed or lack fields), the alerts the scan goes on with, persists and
\* returns are field for field the alerts heuristicDetect produced
C22_FailedRewriteLeavesAlerts ==
    \A r \in RunIds :
        RewriteFailed(run[r]) /\ run[r].anomalies # <<>> =>
            LET heuristic == heuristicDetect(run[r].rawResults)
            IN  /\ run[r].anomalies = heuristic
                /\ AlertsOfScan(run[r].scanId) = SubSeq(heuristic, 1, run[r].persisted)
                /\ run[r].outcome = "returned" /\ run[r].returned.alerts # <<>> =>
                       run[r].returned.alerts = heuristic


\* ------------------------------------------------------------------------
\* the rejection scenario of the validator (checked under SpecValidate)
\* ------------------------------------------------------------------------

\* validateQuery("DROP TABLE users", ["users"]) has returned
DropScenario ==
    /\ phase = "validated"
    /\ sql = DropTableUsers
    /\ allowedTables = <<T_users>>

\* C24 as stated: validateQuery("DROP TABLE users", ["users"]) is invalid and
\* its errors hold both the SELECT-only violation and the forbidden keyword DROP
C24_DropReportsBoth ==
    DropScenario =>
        /\ ~validation.valid
        /\ \E i \in DOMAIN validation.errors : validation.errors[i] = ErrSelectOnly
        /\ \E i \in DOMAIN validation.errors :
               validation.errors[i] = ErrForbidden(<<"D","R","O","P">>)

\* C24 amended: validateQuery("DROP TABLE users", ["users"]) is invalid with
\* the SELECT-only violation as its one error; the keyword check is not
\* reached, so DROP is not reported
C24_DropReportsSelectOnly ==
    DropScenario =>
        /\ ~validation.valid
        /\ validation.errors = <<ErrSelectOnly>>
        /\ \A i \in DOMAIN validation.errors :
               validation.errors[i] # ErrForbidden(<<"D","R","O","P">>)

\* C24 witness: the scenario's call has returned its validation
C24_Witness ==
    /\ DropScenario
    /\ ~validation.valid
    /\ Len(validation.errors) = 1

\* ------------------------------------------------------------------------
\* heuristic detection (checked under SpecDetect)
\* ------------------------------------------------------------------------

\* heuristicDetect has returned for caller r
Detected(r) == run[r].pc = "detected"

\* the results with a row per period
TwoRowResults(r) == {i \in DOMAIN run[r].rawResults : Len(run[r].rawResults[i].rows) >= 2}

CurrentOf(r, i)  == run[r].rawResults[i].rows[1].total
PreviousOf(r, i) == run[r].rawResults[i].rows[2].total

\* the alerts that carry the SQL of result i
AlertsFor(r, i) ==
    {j \in DOMAIN run[r].anomalies :
        run[r].anomalies[j].queryUsed = run[r].rawResults[i].query.sql}

\* lo <= |(c - p) / |p| * 100| < hi, for p # 0
ChangeInBand(c, p, lo, hi) ==
    /\ lo * Abs(p) <= Abs(c - p) * 100
    /\ Abs(c - p) * 100 < hi * Abs(p)

\* lo <= |(c - p) / |p| * 100|, for p # 0
ChangeAtLeast(c, p, lo) == lo * Abs(p) <= Abs(c - p) * 100

\* result i yields exactly one alert, of the given severity
OneAlertOf(r, i, severity) ==
    /\ Cardinality(AlertsFor(r, i)) = 1
    /\ \A j \in AlertsFor(r, i) : run[r].anomalies[j].severity = severity

\* C23: a result with a row per period and a previous total other than zero
\* is classified by the absolute value of its percentage change, gains and
\* losses alike: below 20 no alert, from 20 to below 30 info, from 30 to
\* below 50 warning, 50 and more critical
C23_SeverityBands ==
    \A r \in RunIds :
        Detected(r) =>
            \A i \in TwoRowResults(r) :
                LET c == CurrentOf(r, i)
                    p == PreviousOf(r, i)
                IN  p # 0 =>
                       /\ ChangeInBand(c, p, 0, 20)  => AlertsFor(r, i) = {}
                       /\ ChangeInBand(c, p, 20, 30) => OneAlertOf(r, i, "info")
                       /\ ChangeInBand(c, p, 30, 50) => OneAlertOf(r, i, "warning")
                       /\ ChangeAtLeast(c, p, 50)     => OneAlertOf(r, i, "critical")

\* C23 witness: a loss of exactly 30 percent has been classified as warning
C23_Witness ==
    \E r \in RunIds :
        /\ Detected(r)
        /\ Len(run[r].rawResults) = 1
        /\ CurrentOf(r, 1) = 700
        /\ PreviousOf(r, 1) = 1000
        /\ OneAlertOf(r, 1, "warning")

\* t tenths of a percent is (c - p) / |p| * 100 rounded to one decimal, or
\* 100 percent when p is zero and c positive
ChangeIs(t, c, p) ==
    IF p # 0 THEN Abs(t * Abs(p) - (c - p) * 1000) * 2 <= Abs(p)
    ELSE c > 0 /\ t = 1000

\* C25: every alert stems from a result with totals c and p of which it
\* carries currentValue = c, previousValue = p, the table, the column and the
\* SQL of the query, and the change (c - p) / |p| * 100, or +100 when p = 0
\* and c > 0; totals both zero yield no alert; totals 150 and 100 yield a
\* critical alert of +50 percent
C25_ChangeAndProvenance ==
    \A r \in RunIds :
        Detected(r) =>
            /\ \A j \in DOMAIN run[r].anomalies :
                   \E i \in TwoRowResults(r) :
                       LET a == run[r].anomalies[j]
                           q == run[r].rawResults[i].query
                       IN  /\ a.currentValue = CurrentOf(r, i)
                           /\ a.previousValue = PreviousOf(r, i)
                           /\ a.tableName = q.tableName
                           /\ a.columnName = q.columnName
                           /\ a.queryUsed = q.sql
                           /\ ChangeIs(a.changeTenths, CurrentOf(r, i), PreviousOf(r, i))
            /\ \A i \in TwoRowResults(r) :
                   /\ CurrentOf(r, i) = 0 /\ PreviousOf(r, i) = 0 => AlertsFor(r, i) = {}
                   /\ CurrentOf(r, i) > 0 /\ PreviousOf(r, i) = 0 =>
                          /\ OneAlertOf(r, i, "critical")
                          /\ \A j \in AlertsFor(r, i) : run[r].anomalies[j].changeTenths = 1000
                   /\ CurrentOf(r, i) = 150 /\ PreviousOf(r, i) = 100 =>
                          /\ OneAlertOf(r, i, "critical")
                          /\ \A j \in AlertsFor(r, i) :
                                 /\ run[r].anomalies[j].changeTenths = 500
                                 /\ run[r].anomalies[j].currentValue = 150
                                 /\ run[r].anomalies[j].previousValue = 100

\* C25 witness: a rise from a negative total and the rise from 100 to 150
\* have each yielded their alert
C25_Witness ==
    \E r \in RunIds :
        /\ Detected(r)
        /\ Len(run[r].rawResults) = 2
        /\ CurrentOf(r, 1) = 0 - 100
        /\ PreviousOf(r, 1) = 0 - 150
        /\ Len(run[r].anomalies) = 2
        /\ run[r].anomalies[1].changeTenths = 333
        /\ run[r].anomalies[2].changeTenths = 500

\* Math.round(change * 10) is at least m in magnitude, for p # 0
RoundedAtLeast(c, p, m) ==
    \/ (c - p) * 2000 >= (2 * m - 1) * Abs(p)
    \/ (c - p) * 2000 < (1 - 2 * m) * Abs(p)

\* C30 as stated: the severity of every alert follows from its stored
\* changePercent under the thresholds 20, 30 and 50, and every change whose
\* rounded value is at least 20 in magnitude has its alert
C30_SeverityAgreesWithStored ==
    \A r \in RunIds :
        Detected(r) =>
            /\ \A j \in DOMAIN run[r].anomalies :
                   LET a == run[r].anomalies[j]
                       t == Abs(a.changeTenths)
                   IN  /\ a.severity = "critical" <=> t >= 500
                       /\ a.severity = "warning"  <=> (300 <= t /\ t < 500)
                       /\ a.severity = "info"     <=> (200 <= t /\ t < 300)
            /\ \A i \in TwoRowResults(r) :
                   (PreviousOf(r, i) # 0
                      /\ RoundedAtLeast(CurrentOf(r, i), PreviousOf(r, i), 200)) =>
                       AlertsFor(r, i) # {}

\* C30 amended: the severity follows from the change before rounding, and
\* the stored changePercent is that change rounded to one decimal, so that
\* the two agree up to the rounding: critical has a stored magnitude of 50
\* or more, warning of 30 to 50, info of 20 to 30, both ends included; and a
\* change whose rounded value exceeds 20 in magnitude has its alert
C30_SeverityAgreesUpToRounding ==
    \A r \in RunIds :
        Detected(r) =>
            /\ \A j \in DOMAIN run[r].anomalies :
                   LET a == run[r].anomalies[j]
                       t == Abs(a.changeTenths)
                   IN  /\ ChangeIs(a.changeTenths, a.currentValue, a.previousValue)
                       /\ a.severity = "critical" => t >= 500
                       /\ a.severity = "warning"  => (300 <= t /\ t <= 500)
                       /\ a.severity = "info"     => (200 <= t /\ t <= 300)
                       /\ a.severity \in {"critical", "warning", "info"}
            /\ \A i \in TwoRowResults(r) :
                   (PreviousOf(r, i) # 0
                      /\ RoundedAtLeast(CurrentOf(r, i), PreviousOf(r, i), 201)) =>
                       AlertsFor(r, i) # {}

\* C30 witness: a change of 49.975 percent is stored as 50.0 with severity warning
C30_Witness ==
    \E r \in RunIds :
        /\ Detected(r)
        /\ Len(run[r].rawResults) = 1
        /\ CurrentOf(r, 1) = 3001
        /\ PreviousOf(r, 1) = 2001
        /\ Len(run[r].anomalies) = 1
        /\ run[r].anomalies[1].changeTenths = 500
        /\ run[r].anomalies[1].severity = "warning"

\* ------------------------------------------------------------------------
\* the scan as a caller of the executor (checked under SpecScan)
\* ------------------------------------------------------------------------

\* the cached schema of the scan holds the table with a row estimate under the ceiling
UnderCeiling(k, table) ==
    \E i \in DOMAIN k.schema.tables :
        /\ k.schema.tables[i].name = table
        /\ k.schema.tables[i].rowCount <= MAX_ROW_ESTIMATE_FOR_SCAN

\* C26: every comparison query of a scan that the remote database ran read a
\* table that was authorized for the data source when the executor ran it,
\* whatever another request did to the permissions meanwhile, and that is
\* under the size ceiling
C26_ReadsOnlyAuthorized ==
    \A r \in RunIds :
        \A rd \in run[r].reads :
            /\ toLowerCase(rd.table) \in AuthorizedNames(rd.allowedThen)
            /\ UnderCeiling(run[r], rd.table)

\* ------------------------------------------------------------------------
\* query synthesis (checked under SpecGenerate)
\* ------------------------------------------------------------------------

\* the k-th query is the one of candidate number (k + 1) / 2, the 7-day
\* query first and the 30-day query second
QueryOfCandidate(query, k, candidates) ==
    LET candidate == candidates[(k + 1) \div 2]
    IN  /\ query.tableName = candidate.table.name
        /\ query.columnName = candidate.numericCol.name
        /\ query.sql.timeCol = candidate.timeCol.name
        /\ query.description = IF k % 2 = 1 THEN "Week-over-week" ELSE "30-day trend"
        /\ query.sql.period = query.description

\* C27: generateComparisonQueries returns the queries of the candidates in
\* their order, the 7-day query before the 30-day query of each, cut after
\* the tenth: at most MAX_QUERIES_PER_SCAN queries whatever the number of
\* candidates, no table having more than three candidates
C27_AtMostTenInOrder ==
    \A r \in RunIds :
        run[r].pc = "generated" =>
            LET candidates == run[r].candidates
                queries    == run[r].comparisonQueries
                wanted     == 2 * Len(candidates)
            IN  /\ Len(queries) <= MAX_QUERIES_PER_SCAN
                /\ Len(queries) = IF wanted < 10 THEN wanted ELSE 10
                /\ \A k \in DOMAIN queries : QueryOfCandidate(queries[k], k, candidates)
                /\ \A i \in DOMAIN candidates :
                       Cardinality({j \in DOMAIN candidates :
                                       candidates[j].table = candidates[i].table}) <= 3

\* C27 witness: eight candidates, of which the first five got their queries
C27_Witness ==
    \E r \in RunIds :
        /\ run[r].pc = "generated"
        /\ Len(run[r].candidates) = 8
        /\ Len(run[r].comparisonQueries) = 10
        /\ run[r].comparisonQueries[10].description = "30-day trend"

\* ------------------------------------------------------------------------
\* the scan record and the alert rows at the end of a scan (checked under SpecScan)
\* ------------------------------------------------------------------------

\* the tables for which some comparison query of the run gave a usable result
TablesWithResults(k) == {k.rawResults[i].query.tableName : i \in DOMAIN k.rawResults}

\* C28: a completed scan has as many alert rows as its alertsFound says; while
\* its run is at hand, queriesRun is the number of queries synthesized,
\* tablesScanned the number of distinct tables with a usable result and
\* alertsFound the number of alerts returned; completed without candidates it
\* has the three counters at 0 and no alert, stored or returned
C28_CountersMatch ==
    \A s \in DOMAIN scans :
        scans[s].status = "completed" =>
            /\ scans[s].alertsFound = Len(AlertsOfScan(s))
            /\ \A r \in RunIds :
                   run[r].scanId = s =>
                       /\ run[r].outcome = "returned"
                       /\ scans[s].queriesRun = Len(run[r].comparisonQueries)
                       /\ scans[s].tablesScanned = Cardinality(TablesWithResults(run[r]))
                       /\ scans[s].alertsFound = Len(run[r].returned.alerts)
                       /\ run[r].returned.scanId = s
                       /\ run[r].candidates = <<>> =>
                              /\ scans[s].queriesRun = 0
                              /\ scans[s].tablesScanned = 0
                              /\ scans[s].alertsFound = 0
                              /\ AlertsOfScan(s) = <<>>
                              /\ run[r].returned.alerts = <<>>

\* C28 witness: a scan of two queries, one of which failed, is completed
\* with one table scanned and one alert found, stored and returned
C28_Witness ==
    \E r \in RunIds :
        /\ run[r].pc = "done"
        /\ run[r].scanId \in DOMAIN scans
        /\ run[r].failures = 1
        /\ scans[run[r].scanId].status = "completed"
        /\ scans[run[r].scanId].queriesRun = 2
        /\ scans[run[r].scanId].tablesScanned = 1
        /\ scans[run[r].scanId].alertsFound = 1
        /\ Len(AlertsOfScan(run[r].scanId)) = 1

\* the try block of the run was left for the catch block
CaughtAnError(k) == k.scanId # 0 /\ k.errorMessage # ""

\* C29: a run whose pipeline threw ends by returning no alerts, with its scan
\* failed under the message caught, and the alert rows inserted before the
\* failure are still stored
C29_FailureIsRecorded ==
    \A r \in RunIds :
        (run[r].pc = "done" /\ CaughtAnError(run[r])) =>
            /\ run[r].outcome = "returned"
            /\ run[r].returned.alerts = <<>>
            /\ scans[run[r].scanId].status = "failed"
            /\ scans[run[r].scanId].errorMessage = run[r].errorMessage
            /\ Len(AlertsOfScan(run[r].scanId)) = run[r].persisted

=============================================================================
